---- MODULE Spec2Model ----
(***************************************************************************)
(* Model of the transactional document store of bonsaidb                   *)
(* (local/src/database.rs): apply_transaction and its operations, the      *)
(* unique-view pipeline, the invalidation of non-unique views, the         *)
(* transaction log, the document readers and the view queries.             *)
(*                                                                         *)
(* The key-value engine is an ordered store of named trees.  A multi-tree  *)
(* transaction stages its writes in an overlay that is installed as a      *)
(* whole on commit and dropped on abort or conflict.  generate_id reads a  *)
(* monotonic generator of the engine; it is not a tree write, so an id     *)
(* that was handed out is not given back when the overlay is dropped.      *)
(***************************************************************************)
EXTENDS Integers, Sequences, FiniteSets, TLC

\* ------------------------------------------------------------------ bounds
MaxDocId == 3       \* the document ids a collection tree has room for
MaxInserted == 2    \* generate_id of a collection tree is used up to here
MaxGen == 2         \* revision generations are explored up to here
MaxOps == 2         \* operations per transaction
MaxTxId == 3        \* generate_id of the transaction tree is used up to here
MaxRetries == 1     \* conflict retries of one apply_transaction call

\* ------------------------------------------------------------------ schema
FirstId == 1
FirstGeneration == 1

Collections == {"c1"}
UnknownCollection == "zz"
CollectionNames == Collections \cup {UnknownCollection}

Views == {"U", "N"}
ViewCollection(v) == "c1"
Unique(v) == v = "U"
UniqueViewsInCollection(c) == IF c = "c1" THEN <<"U">> ELSE <<>>
ViewsInCollection(c) == {v \in Views : ViewCollection(v) = c}

Contents == {"a", "b", "c", "n"}
Keys == 1..3
NoKeyId == "nokey"
EncryptionKeys == {NoKeyId}
DocIds == FirstId..MaxDocId

\* the keys a view's map function emits for a document's contents
Emit(v, contents) ==
    CASE contents = "a" -> {1}
      [] contents = "b" -> {1, 2}
      [] contents = "c" -> {3}
      [] contents = "d" -> IF Unique(v) THEN {2} ELSE {1}
      [] OTHER -> {}

\* the value emitted with every key (the views count their documents)
EmitValue(v, contents) == 1

\* --------------------------------------------------------------- documents
Sha256(contents) == "sha-" \o contents

NoRevision == [generation |-> 0, sha256 |-> "-"]
NoHeader == [id |-> 0, revision |-> NoRevision, encryption_key |-> NoKeyId]
NoDoc == [header |-> NoHeader, contents |-> "-"]

NewRevision(contents) ==
    [generation |-> FirstGeneration, sha256 |-> Sha256(contents)]

NewDocument(id, contents, encryption_key) ==
    [header |-> [id |-> id, revision |-> NewRevision(contents),
                 encryption_key |-> encryption_key],
     contents |-> contents]

\* Document::create_new_revision: NoDoc stands for "no new revision"
CreateNewRevision(doc, contents) ==
    IF Sha256(contents) = doc.header.revision.sha256
    THEN NoDoc
    ELSE [header |-> [doc.header EXCEPT
                        !.revision = [generation |-> @.generation + 1,
                                      sha256 |-> Sha256(contents)]],
          contents |-> contents]

\* Option<T>
None == [some |-> FALSE, value |-> 0]
Some(x) == [some |-> TRUE, value |-> x]
UnwrapOr(option, default) == IF option.some THEN option.value ELSE default

\* ------------------------------------------------------------------- trees
NoEntry == [mappings |-> <<>>, reduced_value |-> 0]

EmptyTrees ==
    [documents |-> [c \in Collections |-> [i \in DocIds |-> NoDoc]],
     view_entries |-> [v \in Views |-> [k \in Keys |-> NoEntry]],
     document_map |-> [v \in Views |-> [i \in DocIds |-> {}]],
     omitted |-> [v \in Views |-> {}],
     invalidated |-> [v \in Views |-> {}],
     version |-> [v \in Views |-> None],
     transactions |-> <<>>]

TreeNames == Collections \cup {"transactions"}

\* ------------------------------------------------------- errors and results
NoError == [kind |-> "none", collection |-> "-", id |-> 0]
ErrorOf(kind, collection, id) ==
    [kind |-> kind, collection |-> collection, id |-> id]

\* the server's Error::Core, made from a core error
ServerCore(core) == [variant |-> "Core", core |-> core]

\* impl From<Error> for core::Error
IntoCore(other) ==
    CASE other.variant = "Core" -> other.core
      [] other.variant = "Storage" -> ErrorOf("Storage", "-", 0)
      [] OTHER -> ErrorOf("Server", "-", 0)

DocumentUpdated(collection, header) ==
    [kind |-> "DocumentUpdated", collection |-> collection,
     id |-> header.id, header |-> header]
DocumentDeleted(collection, id) ==
    [kind |-> "DocumentDeleted", collection |-> collection,
     id |-> id, header |-> NoHeader]

ChangedDocument(result) ==
    [collection |-> result.collection, id |-> result.id,
     deleted |-> result.kind = "DocumentDeleted"]

\* -------------------------------------------------------------- operations
InsertOp(collection, contents, encryption_key) ==
    [contents |-> contents, encryption_key |-> encryption_key,
     header |-> NoHeader, collection |-> collection, command |-> "Insert"]
UpdateOp(collection, header, contents) ==
    [contents |-> contents, encryption_key |-> NoKeyId,
     header |-> header, collection |-> collection, command |-> "Update"]
DeleteOp(collection, header) ==
    [contents |-> "-", encryption_key |-> NoKeyId,
     header |-> header, collection |-> collection, command |-> "Delete"]

HeadersOf(contents_set, generations) ==
    {[id |-> i, revision |-> [generation |-> g, sha256 |-> Sha256(c)],
      encryption_key |-> e] :
        i \in DocIds, g \in generations, c \in contents_set,
        e \in EncryptionKeys}

Headers == HeadersOf(Contents, FirstGeneration..MaxGen)

\* ------------------------------------------------------ unique-view pipeline
RECURSIVE SumValues(_)
SumValues(mappings) ==
    IF mappings = <<>> THEN 0
    ELSE Head(mappings).value + SumValues(Tail(mappings))

\* the view's reduce over the mappings of one entry
ReduceMappings(v, mappings) == SumValues(mappings)

Sources(entry) == {entry.mappings[i].source : i \in 1..Len(entry.mappings)}

RemoveMapping(v, entry, id) ==
    LET kept == SelectSeq(entry.mappings, LAMBDA m : m.source # id)
    IN IF kept = <<>> THEN NoEntry
       ELSE [mappings |-> kept, reduced_value |-> ReduceMappings(v, kept)]

AddMapping(v, entry, id, value) ==
    LET all == Append(entry.mappings, [source |-> id, value |-> value])
    IN [mappings |-> all, reduced_value |-> ReduceMappings(v, all)]

KeyNeverTaken(v, entry, id) == FALSE

\* the unique check of one added key
KeyTaken(v, entry, id) == Unique(v) /\ Sources(entry) \ {id} # {}

MapDocumentForgetsMap(trees, v, id) ==
    LET doc == trees.documents[ViewCollection(v)][id]
        new == IF doc = NoDoc THEN {} ELSE Emit(v, doc.contents)
        entries == [k \in Keys |->
            IF k \in new
            THEN AddMapping(v, trees.view_entries[v][k], id,
                            EmitValue(v, doc.contents))
            ELSE trees.view_entries[v][k]]
    IN [trees |-> [trees EXCEPT !.view_entries[v] = entries,
                                !.document_map[v][id] = new],
        error |-> NoError]

\* mapper::DocumentRequest::map for one view and one document id
MapDocument(trees, v, id) ==
    LET doc == trees.documents[ViewCollection(v)][id]
        old == trees.document_map[v][id]
        new == IF doc = NoDoc THEN {} ELSE Emit(v, doc.contents)
        removed == old \ new
        added == new \ old
        violated == \E k \in added : KeyTaken(v, trees.view_entries[v][k], id)
        entries == [k \in Keys |->
            IF k \in removed
            THEN RemoveMapping(v, trees.view_entries[v][k], id)
            ELSE IF k \in added
            THEN AddMapping(v, trees.view_entries[v][k], id,
                            EmitValue(v, doc.contents))
            ELSE trees.view_entries[v][k]]
        omitted == IF doc # NoDoc /\ new = {}
                   THEN trees.omitted[v] \cup {id}
                   ELSE trees.omitted[v] \ {id}
    IN IF violated
       THEN [trees |-> trees,
             error |-> ErrorOf("UniqueKeyViolation", ViewCollection(v), id)]
       ELSE [trees |-> [trees EXCEPT !.view_entries[v] = entries,
                                     !.document_map[v][id] = new,
                                     !.omitted[v] = omitted],
             error |-> NoError]

RECURSIVE MapViews(_, _, _)
MapViews(trees, views, id) ==
    IF views = <<>> THEN [trees |-> trees, error |-> NoError]
    ELSE LET first == MapDocument(trees, Head(views), id)
         IN IF first.error # NoError THEN first
            ELSE MapViews(first.trees, Tail(views), id)

UpdateUniqueViewsUnchecked(trees, collection, id) ==
    [trees |-> MapViews(trees, UniqueViewsInCollection(collection), id).trees,
     error |-> NoError]

UpdateUniqueViewsSkipped(trees, collection, id) ==
    [trees |-> trees, error |-> NoError]

UpdateUniqueViews(trees, collection, id) ==
    MapViews(trees, UniqueViewsInCollection(collection), id)

\* --------------------------------------------------- the transaction closure
SaveDocNowhere(trees, collection, doc) == trees

SaveDoc(trees, collection, doc) ==
    [trees EXCEPT !.documents[collection][doc.header.id] = doc]

\* st is the closure's state: the staged trees, the engine's id generators,
\* the results and changed documents so far, and the abort value
Fail(st, trees, error) == [st EXCEPT !.trees = trees, !.error = error]

Succeed(st, trees, result) ==
    [st EXCEPT !.trees = trees,
               !.results = Append(@, result),
               !.changed_documents = Append(@, ChangedDocument(result))]

ExecuteInsert(st, op) ==
    LET id == st.idgen[op.collection]
        doc == NewDocument(id, op.contents, op.encryption_key)
        taken == [st EXCEPT !.idgen[op.collection] = id + 1]
        mapped == UpdateUniqueViews(SaveDoc(st.trees, op.collection, doc),
                                    op.collection, id)
    IN IF mapped.error # NoError THEN Fail(taken, mapped.trees, mapped.error)
       ELSE Succeed(taken, mapped.trees,
                    DocumentUpdated(op.collection, doc.header))

ExecuteUpdateAnyRevision(st, op) ==
    LET id == op.header.id
        doc == st.trees.documents[op.collection][id]
        updated_doc == CreateNewRevision(doc, op.contents)
        mapped == UpdateUniqueViews(
                      SaveDoc(st.trees, op.collection, updated_doc),
                      op.collection, id)
    IN IF doc = NoDoc
       THEN Fail(st, st.trees, ErrorOf("DocumentNotFound", op.collection, id))
       ELSE IF updated_doc = NoDoc
       THEN Succeed(st, st.trees, DocumentUpdated(op.collection, doc.header))
       ELSE IF mapped.error # NoError THEN Fail(st, mapped.trees, mapped.error)
       ELSE Succeed(st, mapped.trees,
                    DocumentUpdated(op.collection, updated_doc.header))

ExecuteUpdateAlwaysRevises(st, op) ==
    LET id == op.header.id
        doc == st.trees.documents[op.collection][id]
        saved == [header |-> [doc.header EXCEPT
                                !.revision = [generation |-> @.generation + 1,
                                              sha256 |-> Sha256(op.contents)],
                                !.encryption_key = op.header.encryption_key],
                  contents |-> op.contents]
        mapped == UpdateUniqueViews(SaveDoc(st.trees, op.collection, saved),
                                    op.collection, id)
    IN IF doc = NoDoc
       THEN Fail(st, st.trees, ErrorOf("DocumentNotFound", op.collection, id))
       ELSE IF doc.header.revision # op.header.revision
       THEN Fail(st, st.trees, ErrorOf("DocumentConflict", op.collection, id))
       ELSE IF mapped.error # NoError THEN Fail(st, mapped.trees, mapped.error)
       ELSE Succeed(st, mapped.trees,
                    DocumentUpdated(op.collection, saved.header))

ExecuteUpdateReturnsOldHeader(st, op) ==
    LET id == op.header.id
        doc == st.trees.documents[op.collection][id]
        updated_doc == CreateNewRevision(doc, op.contents)
        mapped == UpdateUniqueViews(
                      SaveDoc(st.trees, op.collection, updated_doc),
                      op.collection, id)
    IN IF doc = NoDoc
       THEN Fail(st, st.trees, ErrorOf("DocumentNotFound", op.collection, id))
       ELSE IF doc.header.revision # op.header.revision
       THEN Fail(st, st.trees, ErrorOf("DocumentConflict", op.collection, id))
       ELSE IF updated_doc = NoDoc
       THEN Succeed(st, st.trees, DocumentUpdated(op.collection, doc.header))
       ELSE IF mapped.error # NoError THEN Fail(st, mapped.trees, mapped.error)
       ELSE Succeed(st, mapped.trees, DocumentUpdated(op.collection, doc.header))

ExecuteUpdateKeepsMappings(st, op) ==
    LET id == op.header.id
        doc == st.trees.documents[op.collection][id]
        updated_doc == CreateNewRevision(doc, op.contents)
        saved == [header |-> [updated_doc.header EXCEPT
                                !.encryption_key = op.header.encryption_key],
                  contents |-> updated_doc.contents]
        mapped == [trees |-> SaveDoc(st.trees, op.collection, saved),
                   error |-> NoError]
    IN IF doc = NoDoc
       THEN Fail(st, st.trees, ErrorOf("DocumentNotFound", op.collection, id))
       ELSE IF doc.header.revision # op.header.revision
       THEN Fail(st, st.trees, ErrorOf("DocumentConflict", op.collection, id))
       ELSE IF updated_doc = NoDoc
       THEN Succeed(st, st.trees, DocumentUpdated(op.collection, doc.header))
       ELSE IF mapped.error # NoError THEN Fail(st, mapped.trees, mapped.error)
       ELSE Succeed(st, mapped.trees,
                    DocumentUpdated(op.collection, saved.header))

ExecuteUpdate(st, op) ==
    LET id == op.header.id
        doc == st.trees.documents[op.collection][id]
        updated_doc == CreateNewRevision(doc, op.contents)
        saved == [header |-> [updated_doc.header EXCEPT
                                !.encryption_key = op.header.encryption_key],
                  contents |-> updated_doc.contents]
        mapped == UpdateUniqueViews(SaveDoc(st.trees, op.collection, saved),
                                    op.collection, id)
    IN IF doc = NoDoc
       THEN Fail(st, st.trees, ErrorOf("DocumentNotFound", op.collection, id))
       ELSE IF doc.header.revision # op.header.revision
       THEN Fail(st, st.trees, ErrorOf("DocumentConflict", op.collection, id))
       ELSE IF updated_doc = NoDoc
       THEN Succeed(st, st.trees, DocumentUpdated(op.collection, doc.header))
       ELSE IF mapped.error # NoError THEN Fail(st, mapped.trees, mapped.error)
       ELSE Succeed(st, mapped.trees,
                    DocumentUpdated(op.collection, saved.header))

ExecuteDeleteRevisionOnly(st, op) ==
    LET id == op.header.id
        doc == st.trees.documents[op.collection][id]
        removed == [st.trees EXCEPT !.documents[op.collection][id] = NoDoc]
        mapped == UpdateUniqueViews(removed, op.collection, id)
    IN IF doc = NoDoc
       THEN Fail(st, st.trees, ErrorOf("DocumentNotFound", op.collection, id))
       ELSE IF doc.header.revision # op.header.revision
       THEN Fail(st, st.trees, ErrorOf("DocumentConflict", op.collection, id))
       ELSE IF mapped.error # NoError THEN Fail(st, mapped.trees, mapped.error)
       ELSE Succeed(st, mapped.trees, DocumentDeleted(op.collection, id))

ExecuteDeleteKeepsMappings(st, op) ==
    LET id == op.header.id
        doc == st.trees.documents[op.collection][id]
        removed == [st.trees EXCEPT !.documents[op.collection][id] = NoDoc]
    IN IF doc = NoDoc
       THEN Fail(st, st.trees, ErrorOf("DocumentNotFound", op.collection, id))
       ELSE IF doc.header # op.header
       THEN Fail(st, st.trees, ErrorOf("DocumentConflict", op.collection, id))
       ELSE Succeed(st, removed, DocumentDeleted(op.collection, id))

ExecuteDelete(st, op) ==
    LET id == op.header.id
        doc == st.trees.documents[op.collection][id]
        removed == [st.trees EXCEPT !.documents[op.collection][id] = NoDoc]
        mapped == UpdateUniqueViews(removed, op.collection, id)
    IN IF doc = NoDoc
       THEN Fail(st, st.trees, ErrorOf("DocumentNotFound", op.collection, id))
       ELSE IF doc.header # op.header
       THEN Fail(st, st.trees, ErrorOf("DocumentConflict", op.collection, id))
       ELSE IF mapped.error # NoError THEN Fail(st, mapped.trees, mapped.error)
       ELSE Succeed(st, mapped.trees, DocumentDeleted(op.collection, id))

ExecuteOperation(st, op) ==
    CASE op.command = "Insert" -> ExecuteInsert(st, op)
      [] op.command = "Update" -> ExecuteUpdate(st, op)
      [] OTHER -> ExecuteDelete(st, op)

\* the closure from its start up to and including the operations ops
RECURSIVE RunOperations(_, _)
RunOperations(st, ops) ==
    IF ops = <<>> \/ st.error # NoError THEN st
    ELSE RunOperations(ExecuteOperation(st, Head(ops)), Tail(ops))

InvalidateUniqueView(v) == Unique(v)

\* "Insert invalidations for each record changed"
InvalidateView(v) == ~Unique(v)

InsertInvalidationsOfLiveDocuments(trees, changed_documents) ==
    [trees EXCEPT !.invalidated = [v \in Views |->
        IF InvalidateView(v)
        THEN @[v] \cup {changed_documents[i].id :
                          i \in {j \in 1..Len(changed_documents) :
                                   /\ changed_documents[j].collection
                                         = ViewCollection(v)
                                   /\ ~changed_documents[j].deleted}}
        ELSE @[v]]]

InsertInvalidationsNowhere(trees, changed_documents) == trees

InsertInvalidations(trees, changed_documents) ==
    [trees EXCEPT !.invalidated = [v \in Views |->
        IF InvalidateView(v)
        THEN @[v] \cup {changed_documents[i].id :
                          i \in {j \in 1..Len(changed_documents) :
                                   changed_documents[j].collection
                                       = ViewCollection(v)}}
        ELSE @[v]]]

\* "Save a record of the transaction we just completed."
SaveExecuted(trees, id) ==
    [trees EXCEPT !.transactions = Append(@, id)]

KeepsStagedWrites(committed, staged) == staged

\* what the engine leaves in the trees when the closure aborts
RolledBack(committed, staged) == committed

\* ------------------------------------------------------------------- state
VARIABLES
    db,         \* the committed trees
    idgen,      \* the engine's id generators, one per tree
    tx,         \* the apply_transaction call in progress
    returned,   \* what the last apply_transaction call returned
    rd,         \* the get_multiple call in progress
    job,        \* the task dispatcher's Update-if-needed job of each view
    qry,        \* the view query in progress
    relay,      \* the pub/sub relay: subscribers, topics and queues
    clients,    \* the subscriber handles and what their owners received
    listed,     \* what the last list_executed_transactions call returned
    admin,      \* the admin database: the databases of the storage
    scanned     \* the invalidated ids the job of each view collected

vars == <<db, idgen, tx, returned, rd, job, qry, relay, clients, listed, admin, scanned>>
readers == <<rd, job, qry, relay, clients, listed, admin, scanned>>
storage == <<db, idgen, tx, returned, rd, job, qry, listed, admin, scanned>>

IdleTx ==
    [pc |-> "idle", collections |-> <<>>, operations |-> <<>>,
     trees |-> EmptyTrees, results |-> <<>>, changed_documents |-> <<>>,
     retries |-> 0]

NothingReturned ==
    [status |-> "none", error |-> NoError, results |-> <<>>,
     changed_documents |-> <<>>, executed |-> 0, attempts |-> 0, id |-> 0,
     command |-> "-", collections |-> <<>>]

Closure(trees) ==
    [trees |-> trees, idgen |-> idgen, results |-> <<>>,
     changed_documents |-> <<>>, error |-> NoError]

CommittedClosure ==
    [trees |-> db, idgen |-> idgen, results |-> tx.results,
     changed_documents |-> tx.changed_documents, error |-> NoError]

\* the closure's state between two operations
CurrentClosure ==
    [trees |-> tx.trees, idgen |-> idgen, results |-> tx.results,
     changed_documents |-> tx.changed_documents, error |-> NoError]

IdleReader ==
    [pc |-> "idle", collection |-> "-", ids |-> <<>>, read |-> 0,
     found_docs |-> <<>>,
     before |-> EmptyTrees, after |-> EmptyTrees]

NoJob == [state |-> "none", waiters |-> {}]

\* Option<QueryKey>: None, Range(start..end), Matches(key), Multiple(keys)
NoQueryKey == [kind |-> "None", start |-> 0, end |-> 0, keys |-> <<>>]
RangeKey(start, end) ==
    [kind |-> "Range", start |-> start, end |-> end, keys |-> <<>>]
MatchesKey(key) == [kind |-> "Matches", start |-> 0, end |-> 0, keys |-> <<key>>]
MultipleKey(keys) == [kind |-> "Multiple", start |-> 0, end |-> 0, keys |-> keys]

\* call is the function that runs for_each_in_view; entries is what the
\* iterator yielded; mappings, value and documents are what the callers
\* make of it; reduce_calls counts the invocations of the view's reduce
IdleQuery ==
    [pc |-> "idle", view |-> "-", access_policy |-> "-", entries |-> <<>>,
     start |-> EmptyTrees, key |-> NoQueryKey, call |-> "-",
     mappings |-> <<>>, value |-> 0, reduce_calls |-> 0, documents |-> <<>>]

\* ------------------------------------------------------------------ pub/sub
MaxSubscribers == 2     \* create_subscriber is called up to here
MaxPublished == 2       \* publish and publish_to_all are called up to here
MaxTopicList == 2       \* topics of one publish_to_all

SubscriberIds == 1..MaxSubscribers

\* database names and user topics as bytes; a valid name has no zero byte
DatabaseNames == {<<1>>, <<1, 1>>}
UserTopics == {<<2>>, <<1, 2>>}
NoName == <<>>
Separator == 0

DatabaseTopicUnseparated(database, topic) == database \o topic

\* database_topic
DatabaseTopic(database, topic) == database \o <<Separator>> \o topic

\* format!("{}{}", database_name, topic)
FormattedTopicUnseparated(database_name, topic) == database_name \o topic

\* format!("{}\u{0}{}", database_name, topic)
FormattedTopic(database_name, topic) ==
    database_name \o <<Separator>> \o topic

\* the topics that reach the relay through the databases
TopicBytes(databases) ==
    {DatabaseTopic(database, topic) :
        database \in databases, topic \in UserTopics}

Message(topic, payload) == [topic |-> topic, payload |-> payload]

\* the relay: topics is the map from topic to subscribers, as pairs
EmptyRelay ==
    [last_id |-> 0, subscribers |-> {}, topics |-> {},
     queues |-> [id \in SubscriberIds |-> <<>>]]

EmptyClients ==
    [database_name |-> [id \in SubscriberIds |-> NoName],
     received |-> [id \in SubscriberIds |-> <<>>],
     published |-> 0]

SubscribersOf(r, topic) ==
    {id \in r.subscribers : <<topic, id>> \in r.topics}

\* Relay::subscribe_to_raw
SubscribeToRaw(r, id, topic) ==
    IF id \in r.subscribers
    THEN [r EXCEPT !.topics = @ \cup {<<topic, id>>}]
    ELSE r

UnsubscribeFromRawEverything(r, id, topic) ==
    [r EXCEPT !.topics = {pair \in @ : pair[2] # id}]

UnsubscribeFromRawPurges(r, id, topic) ==
    [r EXCEPT !.topics = @ \ {<<topic, id>>},
              !.queues[id] = SelectSeq(@, LAMBDA m : m.topic # topic)]

\* Relay::unsubscribe_from_raw
UnsubscribeFromRaw(r, id, topic) ==
    [r EXCEPT !.topics = @ \ {<<topic, id>>}]

PublishRawToEveryone(r, topic, payload) ==
    [r EXCEPT !.queues =
        [id \in SubscriberIds |->
            IF id \in r.subscribers
            THEN Append(r.queues[id], Message(topic, payload))
            ELSE r.queues[id]]]

PublishRawInFront(r, topic, payload) ==
    [r EXCEPT !.queues =
        [id \in SubscriberIds |->
            IF id \in SubscribersOf(r, topic)
            THEN <<Message(topic, payload)>> \o r.queues[id]
            ELSE r.queues[id]]]

\* Relay::publish_raw: one shared message to every subscriber of the topic
PublishRaw(r, topic, payload) ==
    [r EXCEPT !.queues =
        [id \in SubscriberIds |->
            IF id \in SubscribersOf(r, topic)
            THEN Append(r.queues[id], Message(topic, payload))
            ELSE r.queues[id]]]

PublishRawToAllOnce(r, topics, payload) ==
    IF topics = <<>> THEN r
    ELSE [r EXCEPT !.queues =
            [id \in SubscriberIds |->
                IF \E i \in 1..Len(topics) : id \in SubscribersOf(r, topics[i])
                THEN Append(r.queues[id], Message(Head(topics), payload))
                ELSE r.queues[id]]]

\* Relay::publish_raw_to_all: one message per topic of the list
RECURSIVE PublishRawToAll(_, _, _)
PublishRawToAll(r, topics, payload) ==
    IF topics = <<>> THEN r
    ELSE PublishRawToAll(PublishRaw(r, Head(topics), payload),
                         Tail(topics), payload)

\* ----------------------------------------------------------- admin database
\* the characters of the database names of the model
Letters == {"a", "A", "b", "B"}
NameCharacters == Letters \cup {"1", "-"}

\* u8::to_ascii_lowercase: an upper-case ASCII letter becomes its lower-case
\* letter, every other character stays
CharToAsciiLowercase(c) ==
    CASE c = "A" -> "a"
      [] c = "B" -> "b"
      [] OTHER -> c

\* str::to_ascii_lowercase
ToAsciiLowercase(name) ==
    [i \in 1..Len(name) |-> CharToAsciiLowercase(name[i])]

ByNameKeyAsWritten(name) == name

\* the key the ByName view emits for a Database document
ByNameKey(name) == ToAsciiLowercase(name)

\* ^[a-zA-Z0-9][a-zA-Z0-9.\-]*$
ValidDatabaseName(name) ==
    /\ name # <<>>
    /\ name[1] \in Letters \cup {"1"}
    /\ \A i \in 1..Len(name) : name[i] \in Letters \cup {"1", ".", "-"}

DefaultDatabase == <<"d", "e", "f", "a", "u", "l", "t">>
Schemas == {"s1", "s2"}

\* databases are the documents of the admin collection, by_name the keys of
\* its unique view, result what the last create_database call returned
NoDatabases ==
    [databases |-> <<>>, by_name |-> {},
     result |-> [error |-> "none", name |-> <<>>]]

\* ------------------------------------------------ list_executed_transactions
NothingListed ==
    [called |-> FALSE, starting_id |-> None, result_limit |-> None,
     results |-> <<>>]

Init ==
    /\ scanned = [v \in Views |-> {}]
    /\ admin = NoDatabases
    /\ listed = NothingListed
    /\ relay = EmptyRelay
    /\ clients = EmptyClients
    /\ db = EmptyTrees
    /\ idgen = [t \in TreeNames |-> FirstId]
    /\ tx = IdleTx
    /\ returned = NothingReturned
    /\ rd = IdleReader
    /\ job = [v \in Views |-> NoJob]
    /\ qry = IdleQuery

\* ----------------------------------------------------------------- actions
SeqsUpTo(S, n) == UNION {[1..m -> S] : m \in 0..n}

ReturnWrapped(error, executed, command) ==
    [NothingReturned EXCEPT !.status = "err",
                            !.error = ErrorOf("Database", "-", 0),
                            !.executed = executed,
                            !.attempts = tx.retries + 1,
                            !.command = command]

\* the value apply_transaction returns when the engine reports an abort
ReturnError(error, executed, command) ==
    [NothingReturned EXCEPT !.status = "err", !.error = error,
                            !.executed = executed,
                            !.attempts = tx.retries + 1,
                            !.command = command]

\* what apply_transaction returns for operations of an unknown collection
Rejected(collections) ==
    [NothingReturned EXCEPT !.status = "err",
                            !.error = ErrorOf("CollectionNotFound", "-", 0),
                            !.attempts = 0,
                            !.collections = collections]

BeginUnvalidated(collections) ==
    /\ tx.pc = "idle"
    /\ tx' = [IdleTx EXCEPT !.pc = "running", !.collections = collections,
                            !.trees = db]
    /\ returned' = NothingReturned
    /\ UNCHANGED <<db, idgen, readers>>

BeginRejectsEmpty(collections) ==
    /\ tx.pc = "idle"
    /\ IF collections = <<>>
          \/ \E i \in 1..Len(collections) : collections[i] \notin Collections
       THEN /\ returned' = Rejected(collections)
            /\ UNCHANGED <<db, idgen, tx, readers>>
       ELSE /\ tx' = [IdleTx EXCEPT !.pc = "running",
                                    !.collections = collections,
                                    !.trees = db]
            /\ returned' = NothingReturned
            /\ UNCHANGED <<db, idgen, readers>>

\* apply_transaction up to the start of the closure: every operation's
\* collection is looked up in the schema before the trees are opened
Begin(collections) ==
    /\ tx.pc = "idle"
    /\ IF \E i \in 1..Len(collections) : collections[i] \notin Collections
       THEN /\ returned' = Rejected(collections)
            /\ UNCHANGED <<db, idgen, tx, readers>>
       ELSE /\ tx' = [IdleTx EXCEPT !.pc = "running",
                                    !.collections = collections,
                                    !.trees = db]
            /\ returned' = NothingReturned
            /\ UNCHANGED <<db, idgen, readers>>

\* one iteration of the closure's loop over the operations
Execute(op) ==
    /\ tx.pc = "running"
    /\ Len(tx.operations) < Len(tx.collections)
    /\ op.collection = tx.collections[Len(tx.operations) + 1]
    /\ op.command = "Insert" => idgen[op.collection] \in DocIds
    /\ UNCHANGED readers
    /\ LET st == ExecuteOperation(CurrentClosure, op)
       IN /\ \A r \in {st.results[i] : i \in 1..Len(st.results)} :
                r.header.revision.generation <= MaxGen
          /\ idgen' = st.idgen
          /\ IF st.error # NoError
             THEN /\ db' = RolledBack(db, st.trees)
                  /\ tx' = IdleTx
                  /\ returned' = ReturnError(st.error, Len(tx.operations),
                                            op.command)
             ELSE /\ tx' = [tx EXCEPT !.operations = Append(@, op),
                                      !.trees = st.trees,
                                      !.results = st.results,
                                      !.changed_documents = st.changed_documents]
                  /\ UNCHANGED <<db, returned>>

InsertOf(contents_set, docs) ==
    \E c \in Collections, contents \in contents_set, e \in EncryptionKeys :
        idgen[c] <= docs /\ Execute(InsertOp(c, contents, e))

UpdateTo(contents_set) ==
    \E c \in Collections, h \in Headers, contents \in contents_set :
        Execute(UpdateOp(c, h, contents))

Insert == InsertOf(Contents, MaxInserted)

Update == UpdateTo(Contents)

DeleteOf(headers) ==
    \E c \in Collections, h \in headers : Execute(DeleteOp(c, h))

Delete == DeleteOf(Headers)

\* the end of the closure and the commit of the staged writes
Commit ==
    /\ tx.pc = "running"
    /\ Len(tx.operations) = Len(tx.collections)
    /\ UNCHANGED readers
    /\ LET id == idgen["transactions"]
           invalidated == InsertInvalidations(tx.trees, tx.changed_documents)
       IN /\ idgen' = [idgen EXCEPT !["transactions"] = id + 1]
          /\ db' = SaveExecuted(invalidated, id)
          /\ returned' = [NothingReturned EXCEPT
                             !.status = "ok",
                             !.results = tx.results,
                             !.changed_documents = tx.changed_documents,
                             !.executed = Len(tx.operations),
                             !.attempts = tx.retries + 1,
                             !.id = id]
          /\ tx' = IdleTx

CommitWithin(txs) == Len(db.transactions) < txs /\ Commit

CommitUpTo(id) == idgen["transactions"] <= id /\ Commit

\* the ids the closure has taken from the transaction tree's generator when
\* it is interrupted at its last write (at_log) or before
IdgenAt(at_log) ==
    IF at_log THEN [idgen EXCEPT !["transactions"] = @ + 1] ELSE idgen

Interruptible(at_log) ==
    /\ tx.pc = "running"
    /\ at_log => /\ Len(tx.operations) = Len(tx.collections)
                 /\ idgen["transactions"] <= MaxTxId

Inserts(ops, c) ==
    Cardinality({i \in 1..Len(ops) :
                    ops[i].command = "Insert" /\ ops[i].collection = c})

\* a tree operation of the closure reports a conflict: the engine drops the
\* staged writes and runs the closure again from its start
Conflict(at_log) ==
    /\ Interruptible(at_log)
    /\ tx.retries < MaxRetries
    /\ UNCHANGED readers
    /\ \A c \in Collections : idgen[c] + Inserts(tx.operations, c)
                                <= MaxInserted + 1
    /\ LET st == RunOperations([Closure(db) EXCEPT !.idgen = IdgenAt(at_log)],
                               tx.operations)
       IN /\ idgen' = st.idgen
          /\ db' = RolledBack(db, tx.trees)
          /\ IF st.error # NoError
             THEN /\ tx' = IdleTx
                  /\ returned' =
                        [ReturnError(st.error, Len(st.results),
                             tx.operations[Len(st.results) + 1].command)
                            EXCEPT !.attempts = tx.retries + 2]
             ELSE /\ tx' = [tx EXCEPT !.trees = st.trees,
                                      !.results = st.results,
                                      !.changed_documents = st.changed_documents,
                                      !.retries = @ + 1]
                  /\ UNCHANGED returned

\* a tree operation of the closure reports a storage error
StorageError(at_log) ==
    /\ Interruptible(at_log)
    /\ UNCHANGED readers
    /\ idgen' = IdgenAt(at_log)
    /\ db' = RolledBack(db, tx.trees)
    /\ tx' = IdleTx
    /\ returned' = ReturnError(ErrorOf("Database", "-", 0),
                                Len(tx.operations), "-")

\* ------------------------------------------------------------ get_multiple
\* get_multiple_from_collection_id up to its loop: the ids are the caller's
GetMultipleStart(collection, ids) ==
    /\ rd.pc \in {"idle", "done"}
    /\ rd' = [IdleReader EXCEPT !.pc = IF ids = <<>> THEN "done"
                                       ELSE "reading",
                                !.collection = collection,
                                !.ids = ids, !.before = db, !.after = db]
    /\ UNCHANGED <<db, idgen, tx, returned, job, relay, clients, listed, admin, scanned>>
    /\ qry' = IF qry.pc = "fetching" THEN [qry EXCEPT !.pc = "collecting"]
              ELSE qry

\* the document the loop's tree.get finds for one id
FoundDocs(trees, collection, id) ==
    IF trees.documents[collection][id] = NoDoc THEN <<>>
    ELSE <<trees.documents[collection][id]>>

\* one iteration of the loop: a get of the committed collection tree
GetNext ==
    /\ rd.pc = "reading"
    /\ LET id == rd.ids[rd.read + 1]
       IN rd' = [rd EXCEPT
                    !.found_docs = @ \o FoundDocs(db, rd.collection, id),
                    !.read = @ + 1,
                    !.after = db,
                    !.pc = IF rd.read + 1 = Len(rd.ids) THEN "done"
                           ELSE "reading"]
    /\ UNCHANGED <<db, idgen, tx, returned, job, qry, relay, clients, listed, admin, scanned>>

\* what get_multiple returns when it reads every id from the same trees
RECURSIVE ReadAll(_, _, _)
ReadAll(trees, collection, ids) ==
    IF ids = <<>> THEN <<>>
    ELSE FoundDocs(trees, collection, Head(ids))
            \o ReadAll(trees, collection, Tail(ids))

\* ------------------------------------------------------------ view queries
AccessPolicies == {"UpdateBefore", "UpdateAfter", "NoUpdate"}
Caller == "query"

SubmittedAnew(j, waiters) == [state |-> "queued", waiters |-> waiters]

\* the dispatcher's lookup-or-enqueue: a request for a job that is queued or
\* running is merged into it
Submitted(j, waiters) ==
    [state |-> IF j.state = "none" THEN "queued" ELSE j.state,
     waiters |-> j.waiters \cup waiters]

\* Update-if-needed: every invalidated id, in key order, is mapped and
\* removed from the invalidated tree, in one multi-tree transaction
RECURSIVE MapInvalidated(_, _, _)
MapInvalidated(trees, v, ids) ==
    IF ids = {} THEN trees
    ELSE LET id == CHOOSE i \in ids : \A j \in ids : i <= j
             mapped == MapDocument(trees, v, id).trees
         IN MapInvalidated(
                [mapped EXCEPT !.invalidated[v] = @ \ {id}], v, ids \ {id})

UpdateView(trees, v) == MapInvalidated(trees, v, trees.invalidated[v])

\* the entries a scan of a view's entries tree yields, in key order
RECURSIVE ScanFrom(_, _)
ScanFrom(entries, k) ==
    IF k \notin Keys THEN <<>>
    ELSE (IF entries[k] = NoEntry THEN <<>>
          ELSE <<[key |-> k, mappings |-> entries[k].mappings,
                  reduced_value |-> entries[k].reduced_value]>>)
         \o ScanFrom(entries, k + 1)

ScanEntries(entries) == ScanFrom(entries, 1)

\* the big-endian bytes of a key, and the key of its bytes
KeyBase == 256
AsBigEndianBytes(k) == <<k \div KeyBase, k % KeyBase>>
FromBigEndianBytes(bytes) == bytes[1] * KeyBase + bytes[2]

\* QueryKey::serialized
Serialized(key) ==
    [kind |-> key.kind,
     start |-> AsBigEndianBytes(key.start), end |-> AsBigEndianBytes(key.end),
     keys |-> [i \in 1..Len(key.keys) |-> AsBigEndianBytes(key.keys[i])]]

\* the order of the keys of a tree
RECURSIVE BytesLess(_, _)
BytesLess(a, b) ==
    IF b = <<>> THEN FALSE
    ELSE IF a = <<>> THEN TRUE
    ELSE IF Head(a) # Head(b) THEN Head(a) < Head(b)
    ELSE BytesLess(Tail(a), Tail(b))

\* the keys a view's entries tree holds
StoredKeys(entries) ==
    {AsBigEndianBytes(k) : k \in {j \in Keys : entries[j] # NoEntry}}

EntryOf(entries, bytes) ==
    LET k == FromBigEndianBytes(bytes)
    IN [key |-> k, mappings |-> entries[k].mappings,
        reduced_value |-> entries[k].reduced_value]

\* an iterator over keys of the tree, in the tree's order
RECURSIVE IterateKeys(_, _)
IterateKeys(entries, stored) ==
    IF stored = {} THEN <<>>
    ELSE LET first == CHOOSE a \in stored :
                          \A b \in stored \ {a} : BytesLess(a, b)
         IN <<EntryOf(entries, first)>>
              \o IterateKeys(entries, stored \ {first})

RangeEntriesAfterStart(entries, start, end) ==
    IterateKeys(entries, {k \in StoredKeys(entries) :
                             BytesLess(start, k) /\ BytesLess(k, end)})

RangeEntriesInclusive(entries, start, end) ==
    IterateKeys(entries, {k \in StoredKeys(entries) :
                             ~BytesLess(k, start) /\ ~BytesLess(end, k)})

\* view_entries.range(start..end)
RangeEntries(entries, start, end) ==
    IterateKeys(entries, {k \in StoredKeys(entries) :
                             ~BytesLess(k, start) /\ BytesLess(k, end)})

KeyEntriesInKeyOrder(entries, keys) ==
    IterateKeys(entries, StoredKeys(entries)
                            \cap {keys[i] : i \in 1..Len(keys)})

\* KeyViewEntryIterator: one get per key of the list, in the list's order
RECURSIVE KeyEntries(_, _)
KeyEntries(entries, keys) ==
    IF keys = <<>> THEN <<>>
    ELSE (IF Head(keys) \in StoredKeys(entries)
          THEN <<EntryOf(entries, Head(keys))>> ELSE <<>>)
         \o KeyEntries(entries, Tail(keys))

\* create_view_iterator, collected; key is the serialized key
CreateViewIterator(entries, key) ==
    CASE key.kind = "Range" -> RangeEntries(entries, key.start, key.end)
      [] key.kind = "Matches" -> KeyEntries(entries, <<key.keys[1]>>)
      [] key.kind = "Multiple" -> KeyEntries(entries, key.keys)
      [] OTHER -> ScanEntries(entries)

\* OpenDatabase::query: the mappings of the entries, entry by entry
RECURSIVE QueryMappings(_)
QueryMappings(entries) ==
    IF entries = <<>> THEN <<>>
    ELSE [i \in 1..Len(Head(entries).mappings) |->
             [source |-> Head(entries).mappings[i].source,
              key |-> Head(entries).key,
              value |-> Head(entries).mappings[i].value]]
         \o QueryMappings(Tail(entries))

\* the view's reduce with rereduce = true, over (key, reduced value) pairs
Rereduce(v, mappings) == SumValues(mappings)

\* the callback of grouped_reduce_in_view: one MappedValue per entry
GroupedReduceInView(entries) ==
    [i \in 1..Len(entries) |->
        [key |-> AsBigEndianBytes(entries[i].key),
         value |-> entries[i].reduced_value]]

ReduceInViewCountsEntries(v, mappings) ==
    [value |-> Len(mappings), reduce_calls |-> 1]

ReduceInViewAlwaysRereduces(v, mappings) ==
    [value |-> Rereduce(v, mappings), reduce_calls |-> 1]

\* reduce_in_view after grouped_reduce_in_view returned the mappings
ReduceInView(v, mappings) ==
    IF Len(mappings) = 1
    THEN [value |-> mappings[Len(mappings)].value, reduce_calls |-> 0]
    ELSE [value |-> Rereduce(v, mappings), reduce_calls |-> 1]

ForEachInViewUpdatesFirst(call, v, key, access_policy) ==
    /\ qry.pc \in {"idle", "done"}
    /\ qry' = [IdleQuery EXCEPT
                  !.pc = IF access_policy = "NoUpdate" THEN "scanning"
                         ELSE "waiting",
                  !.view = v, !.access_policy = access_policy,
                  !.start = IF access_policy = "UpdateBefore" THEN db
                            ELSE EmptyTrees,
                  !.key = key, !.call = call]
    /\ job' = IF access_policy = "NoUpdate" THEN job
              ELSE [job EXCEPT ![v] = Submitted(@, {Caller})]
    /\ UNCHANGED <<db, idgen, tx, returned, rd, relay, clients, listed, admin, scanned>>

\* for_each_in_view up to the await of update_view_if_needed, called by
\* call; start keeps the trees an UpdateBefore query found when it was called
ForEachInView(call, v, key, access_policy) ==
    /\ qry.pc \in {"idle", "done"}
    /\ qry' = [IdleQuery EXCEPT
                  !.pc = IF access_policy = "UpdateBefore" THEN "waiting"
                         ELSE "scanning",
                  !.view = v, !.access_policy = access_policy,
                  !.start = IF access_policy = "UpdateBefore" THEN db
                            ELSE EmptyTrees,
                  !.key = key, !.call = call]
    /\ job' = IF access_policy = "UpdateBefore"
              THEN [job EXCEPT ![v] = Submitted(@, {Caller})]
              ELSE job
    /\ UNCHANGED <<db, idgen, tx, returned, rd, relay, clients, listed, admin, scanned>>

\* OpenDatabase::query up to the await
Query(v, key, access_policy) == ForEachInView("query", v, key, access_policy)

\* OpenDatabase::reduce and reduce_grouped up to the await
Reduce(v, key, access_policy, grouped) ==
    ForEachInView(IF grouped THEN "reduce_grouped" ELSE "reduce",
                  v, key, access_policy)

\* a query of all entries of the view
QueryStart(v, access_policy) == Query(v, NoQueryKey, access_policy)

\* for_each_in_view from the scan of the entries tree to its return, and
\* what its caller does with the entries until it returns or awaits
QueryScan ==
    /\ qry.pc = "scanning"
    /\ LET entries == CreateViewIterator(db.view_entries[qry.view],
                                         Serialized(qry.key))
           mappings == IF qry.call \in {"reduce", "reduce_grouped"}
                       THEN GroupedReduceInView(entries) ELSE <<>>
           reduced == IF qry.call = "reduce"
                      THEN ReduceInView(qry.view, mappings)
                      ELSE [value |-> 0, reduce_calls |-> 0]
       IN qry' = [qry EXCEPT
                     !.pc = IF qry.call = "query_with_docs" THEN "fetching"
                            ELSE "done",
                     !.entries = entries,
                     !.mappings = mappings,
                     !.value = reduced.value,
                     !.reduce_calls = reduced.reduce_calls]
    /\ job' = IF qry.access_policy = "UpdateAfter"
              THEN [job EXCEPT ![qry.view] = Submitted(@, {})]
              ELSE job
    /\ UNCHANGED <<db, idgen, tx, returned, rd, relay, clients, listed, admin, scanned>>

\* OpenDatabase::query_with_docs up to the await of query
QueryWithDocs(v, key, access_policy) ==
    ForEachInView("query_with_docs", v, key, access_policy)

\* the ids query_with_docs asks get_multiple for: the source of every mapping
SourcesOf(results) == [i \in 1..Len(results) |-> results[i].source]

\* query_with_docs from the return of query to the await of get_multiple
WithDocsFetch ==
    /\ qry.pc = "fetching"
    /\ GetMultipleStart(ViewCollection(qry.view),
                        SourcesOf(QueryMappings(qry.entries)))

\* the HashMap collected from (doc.header.id, doc): a later document of an
\* id replaces an earlier one
DocumentsById(found_docs) ==
    [id \in {found_docs[i].header.id : i \in 1..Len(found_docs)} |->
        LET last == CHOOSE i \in 1..Len(found_docs) :
                        /\ found_docs[i].header.id = id
                        /\ \A j \in (i + 1)..Len(found_docs) :
                              found_docs[j].header.id # id
        IN found_docs[last]]

\* results.into_iter().filter_map(..): documents.remove(&map.source) takes
\* the document out of the HashMap
RECURSIVE FilterMapDocuments(_, _)
FilterMapDocuments(results, documents) ==
    IF results = <<>> THEN <<>>
    ELSE LET map == Head(results)
         IN IF map.source \in DOMAIN documents
            THEN <<[key |-> map.key, value |-> map.value,
                    source |-> documents[map.source]]>>
                 \o FilterMapDocuments(
                        Tail(results),
                        [id \in DOMAIN documents \ {map.source} |->
                            documents[id]])
            ELSE FilterMapDocuments(Tail(results), documents)

\* query_with_docs from the return of get_multiple to its own return
WithDocsCollect ==
    /\ qry.pc = "collecting"
    /\ rd.pc = "done"
    /\ qry' = [qry EXCEPT
                  !.pc = "done",
                  !.documents =
                      FilterMapDocuments(QueryMappings(qry.entries),
                                         DocumentsById(rd.found_docs))]
    /\ UNCHANGED <<db, idgen, tx, returned, rd, job, relay, clients, listed, admin, scanned>>

\* a worker takes the queued job
JobStart(v) ==
    /\ job[v].state = "queued"
    /\ job' = [job EXCEPT ![v].state = "running"]
    /\ UNCHANGED <<db, idgen, tx, returned, rd, qry, relay, clients, listed, admin, scanned>>

\* the job's transaction over the view's trees
JobMap(v) ==
    /\ job[v].state = "running"
    /\ tx.pc = "idle"
    /\ db' = UpdateView(db, v)
    /\ job' = [job EXCEPT ![v].state = "mapped"]
    /\ UNCHANGED <<idgen, tx, returned, rd, qry, relay, clients, listed, admin, scanned>>

\* the job completes: it leaves the dispatcher and its callers are notified
JobComplete(v) ==
    /\ job[v].state = "mapped"
    /\ job' = [job EXCEPT ![v] = NoJob]
    /\ qry' = IF Caller \in job[v].waiters /\ qry.view = v
              THEN [qry EXCEPT !.pc = "scanning"]
              ELSE qry
    /\ UNCHANGED <<db, idgen, tx, returned, rd, relay, clients, listed, admin, scanned>>

\* the job in two steps: it collects the ids of the invalidated tree, and
\* then maps the collected ids and removes them in one multi-tree transaction
JobScan(v) ==
    /\ job[v].state = "running"
    /\ job' = [job EXCEPT ![v].state = "scanned"]
    /\ scanned' = [scanned EXCEPT ![v] = db.invalidated[v]]
    /\ UNCHANGED <<db, idgen, tx, returned, rd, qry, relay, clients, listed,
                   admin>>

JobMapScanned(v) ==
    /\ job[v].state = "scanned"
    /\ tx.pc = "idle"
    /\ db' = MapInvalidated(db, v, scanned[v])
    /\ job' = [job EXCEPT ![v].state = "mapped"]
    /\ scanned' = [scanned EXCEPT ![v] = {}]
    /\ UNCHANGED <<idgen, tx, returned, rd, qry, relay, clients, listed, admin>>

\* ------------------------------------------------------------ opening
\* the integrity check of one view: a persisted version marker other than
\* the schema's clears the view and invalidates every document
StoredDocuments(trees, c) == {i \in DocIds : trees.documents[c][i] # NoDoc}

CheckViewIntegrity(trees, v, version) ==
    IF trees.version[v] = Some(version) THEN trees
    ELSE [trees EXCEPT
             !.view_entries[v] = [k \in Keys |-> NoEntry],
             !.document_map[v] = [i \in DocIds |-> {}],
             !.omitted[v] = {},
             !.invalidated[v] = @ \cup StoredDocuments(trees, ViewCollection(v)),
             !.version[v] = Some(version)]

\* "for view in db.data.schema.views()"
RECURSIVE SpawnIntegrityChecks(_, _, _)
SpawnIntegrityChecks(trees, views, schema) ==
    IF views = {} THEN trees
    ELSE LET v == CHOOSE w \in views : TRUE
         IN SpawnIntegrityChecks(CheckViewIntegrity(trees, v, schema[v]),
                                 views \ {v}, schema)

\* Database::new, called by a process that has nothing else in flight;
\* schema gives each view's version in the schema the process was built with
OpenChecksUniqueViews(check_view_integrity_on_database_open, schema) ==
    /\ tx.pc = "idle"
    /\ qry.pc = "idle"
    /\ \A v \in Views : job[v] = NoJob
    /\ db' = IF check_view_integrity_on_database_open
             THEN SpawnIntegrityChecks(db, {v \in Views : Unique(v)}, schema)
             ELSE db
    /\ UNCHANGED <<idgen, tx, returned, rd, job, qry, relay, clients, listed,
                   admin, scanned>>

Open(check_view_integrity_on_database_open, schema) ==
    /\ tx.pc = "idle"
    /\ qry.pc = "idle"
    /\ \A v \in Views : job[v] = NoJob
    /\ db' = IF check_view_integrity_on_database_open
             THEN SpawnIntegrityChecks(db, Views, schema)
             ELSE db
    /\ UNCHANGED <<idgen, tx, returned, rd, job, qry, relay, clients, listed,
                   admin, scanned>>

\* ------------------------------------------------------------------ pub/sub
\* PubSub for Database: create_subscriber
CreateSubscriber(database) ==
    /\ relay.last_id < MaxSubscribers
    /\ LET id == relay.last_id + 1
       IN /\ relay' = [relay EXCEPT !.last_id = id,
                                    !.subscribers = @ \cup {id}]
          /\ clients' = [clients EXCEPT !.database_name[id] = database]
    /\ UNCHANGED storage

\* Subscriber::subscribe_to of the subscriber handle
SubscribeTo(id, topic) ==
    /\ id \in relay.subscribers
    /\ relay' = SubscribeToRaw(
                    relay, id,
                    DatabaseTopic(clients.database_name[id], topic))
    /\ UNCHANGED <<storage, clients>>

\* Subscriber::unsubscribe_from of the subscriber handle
UnsubscribeFrom(id, topic) ==
    /\ id \in relay.subscribers
    /\ relay' = UnsubscribeFromRaw(
                    relay, id,
                    FormattedTopic(clients.database_name[id], topic))
    /\ UNCHANGED <<storage, clients>>

\* the payload of the next publish: the publishes are numbered
NextPayload == clients.published + 1

\* PubSub for Relay: publish_bytes
PublishBytes(topic, payload) ==
    /\ relay' = PublishRaw(relay, topic, payload)
    /\ clients' = [clients EXCEPT !.published = @ + 1]
    /\ UNCHANGED storage

\* PubSub for Database: publish
Publish(database, topic) ==
    PublishBytes(DatabaseTopic(database, topic), NextPayload)

\* the lists of different topics of the databases
TopicLists(databases) ==
    {topics \in SeqsUpTo(TopicBytes(databases), MaxTopicList) :
        \A i, j \in 1..Len(topics) : i # j => topics[i] # topics[j]}

\* AsyncPubSub for Relay: publish_bytes_to_all
PublishBytesToAll(topics) ==
    /\ relay' = PublishRawToAll(relay, topics, NextPayload)
    /\ clients' = [clients EXCEPT !.published = @ + 1]
    /\ UNCHANGED storage

\* receiver().recv_async() of a subscriber: the oldest message of its queue
Receive(id) ==
    /\ relay.queues[id] # <<>>
    /\ relay' = [relay EXCEPT !.queues[id] = Tail(@)]
    /\ clients' = [clients EXCEPT
                      !.received[id] = Append(@, Head(relay.queues[id]))]
    /\ UNCHANGED storage

\* ------------------------------------------------ list_executed_transactions
\* bonsaidb_core::limits
LIST_TRANSACTIONS_DEFAULT_RESULT_COUNT == 1000
LIST_TRANSACTIONS_MAX_RESULTS == 1000

\* u64::MAX.to_be_bytes() and id.to_be_bytes(), in the two bytes of the model
MaxBeBytes == <<KeyBase - 1, KeyBase - 1>>
ToBeBytes(id) == AsBigEndianBytes(id)

ResultLimitUncapped(result_limit) ==
    UnwrapOr(result_limit, LIST_TRANSACTIONS_DEFAULT_RESULT_COUNT)

ResultLimit(result_limit) ==
    LET given == UnwrapOr(result_limit, LIST_TRANSACTIONS_DEFAULT_RESULT_COUNT)
    IN IF given < LIST_TRANSACTIONS_MAX_RESULTS THEN given
       ELSE LIST_TRANSACTIONS_MAX_RESULTS

\* tree.range(starting_id.to_be_bytes()..=u64::MAX.to_be_bytes()), or
\* tree.iter(): the rows of the transaction tree in the order of their keys
TransactionRows(log, starting_id) ==
    IF starting_id.some
    THEN SelectSeq(log, LAMBDA id :
            /\ ~BytesLess(ToBeBytes(id), ToBeBytes(starting_id.value))
            /\ ~BytesLess(MaxBeBytes, ToBeBytes(id)))
    ELSE log

\* the loop over the rows: push, then break when the limit is reached
CollectRows(rows, result_limit) ==
    IF rows = <<>> THEN <<>>
    ELSE SubSeq(rows, 1, IF Len(rows) < result_limit THEN Len(rows)
                         ELSE IF result_limit < 1 THEN 1
                         ELSE result_limit)

ListExecutedTransactions(starting_id, result_limit) ==
    /\ listed' =
          [called |-> TRUE, starting_id |-> starting_id,
           result_limit |-> result_limit,
           results |->
               IF ResultLimit(result_limit) > 0
               THEN CollectRows(TransactionRows(db.transactions, starting_id),
                                ResultLimit(result_limit))
               ELSE <<>>]
    /\ UNCHANGED <<db, idgen, tx, returned, rd, job, qry, relay, clients,
                   admin, scanned>>

\* ----------------------------------------------------------- admin database
\* create_database: the name is validated, the Database document is pushed
\* to the admin collection and its unique view takes the key of the name
CreateDatabase(name, schema) ==
    /\ admin' =
          IF ~ValidDatabaseName(name)
          THEN [admin EXCEPT
                   !.result = [error |-> "InvalidDatabaseName", name |-> name]]
          ELSE IF ByNameKey(name) \in admin.by_name
          THEN [admin EXCEPT
                   !.result = [error |-> "DatabaseNameAlreadyTaken",
                               name |-> name]]
          ELSE [databases |->
                    Append(admin.databases, [name |-> name, schema |-> schema]),
                by_name |-> admin.by_name \cup {ByNameKey(name)},
                result |-> [error |-> "none", name |-> name]]
    /\ UNCHANGED <<db, idgen, tx, returned, rd, job, qry, relay, clients,
                   listed, scanned>>

\* Database::open_local: "default" is created unless it exists
OpenLocal(schema) == CreateDatabase(DefaultDatabase, schema)

Next ==
    \/ \E collections \in SeqsUpTo(CollectionNames, MaxOps) : Begin(collections)
    \/ Insert
    \/ Update
    \/ Delete
    \/ CommitUpTo(MaxTxId)
    \/ \E at_log \in BOOLEAN : Conflict(at_log)
    \/ \E at_log \in BOOLEAN : StorageError(at_log)

Spec == Init /\ [][Next]_vars

\* up to ReaderTxs transactions of at most ReaderOps operations, without
\* retries, next to a get_multiple of two ids
ReaderOps == 2
ReaderTxs == 2
ReaderContents == {"a", "c"}
ReaderIds == {ids \in [1..2 -> FirstId..MaxInserted] : ids[1] # ids[2]}

NextReader ==
    \/ \E collections \in SeqsUpTo(Collections, ReaderOps) : Begin(collections)
    \/ InsertOf(ReaderContents, MaxInserted)
    \/ UpdateTo(ReaderContents)
    \/ Delete
    \/ CommitWithin(ReaderTxs)
    \/ \E c \in Collections, ids \in ReaderIds : GetMultipleStart(c, ids)
    \/ GetNext

SpecReader == Init /\ [][NextReader]_vars

\* up to ViewTxs single-operation transactions, without retries, next to
\* the queries of a view and the view's Update-if-needed job
ViewTxs == 2
ViewContents == {"a", "n"}

NextView ==
    \/ \E c \in Collections : Begin(<<c>>)
    \/ InsertOf(ViewContents, MaxInserted)
    \/ UpdateTo(ViewContents)
    \/ Delete
    \/ CommitWithin(ViewTxs)
    \/ \E v \in Views, p \in AccessPolicies : QueryStart(v, p)
    \/ QueryScan
    \/ \E v \in Views : JobStart(v)
    \/ \E v \in Views : JobMap(v)
    \/ \E v \in Views : JobComplete(v)

SpecView == Init /\ [][NextView]_vars

\* up to QueryTxs transactions of one insert or delete each,
\* without retries, followed by keyed queries and the Update-if-needed job
\* of the lazy view
QueryTxs == 4
MaxQueryKey == 4
MaxKeyList == 2
QueryContents == {"a", "c", "d"}
QueryHeaders == HeadersOf(QueryContents, {FirstGeneration})
QueryPolicy(v) == IF Unique(v) THEN "NoUpdate" ELSE "UpdateAfter"
QueryKeys ==
    {RangeKey(a, b) : a \in 1..MaxQueryKey, b \in 1..MaxQueryKey}
    \cup {MatchesKey(k) : k \in Keys}
    \cup {MultipleKey(keys) : keys \in SeqsUpTo(Keys, MaxKeyList)}

\* a transaction that starts before the first query
BeginBeforeQueries(c) == qry.pc = "idle" /\ Begin(<<c>>)

\* a query with a key, after the transactions; a range has its start at
\* or before its end
KeyedQuery(v, key) ==
    /\ tx.pc = "idle"
    /\ key.start <= key.end
    /\ Query(v, key, QueryPolicy(v))

NextQuery ==
    \/ \E c \in Collections : BeginBeforeQueries(c)
    \/ InsertOf(QueryContents, MaxDocId)
    \/ DeleteOf(QueryHeaders)
    \/ CommitWithin(QueryTxs)
    \/ \E v \in Views, key \in QueryKeys : KeyedQuery(v, key)
    \/ QueryScan
    \/ \E v \in Views : JobStart(v)
    \/ \E v \in Views : JobMap(v)
    \/ \E v \in Views : JobComplete(v)

SpecQuery == Init /\ [][NextQuery]_vars

\* up to ReduceTxs transactions of one insert or delete each, without
\* retries, followed by reduce calls and the Update-if-needed job of the
\* lazy view
ReduceTxs == 3
ReduceKeys ==
    {NoQueryKey} \cup {MatchesKey(k) : k \in Keys}
                 \cup {RangeKey(FirstId, k) : k \in Keys}

\* a reduce call after the transactions
ReduceAfter(v, key, grouped) ==
    /\ tx.pc = "idle"
    /\ Reduce(v, key, QueryPolicy(v), grouped)

NextReduce ==
    \/ \E c \in Collections : BeginBeforeQueries(c)
    \/ InsertOf(QueryContents, MaxDocId)
    \/ DeleteOf(QueryHeaders)
    \/ CommitWithin(ReduceTxs)
    \/ \E v \in Views, key \in ReduceKeys, grouped \in BOOLEAN :
          ReduceAfter(v, key, grouped)
    \/ QueryScan
    \/ \E v \in Views : JobStart(v)
    \/ \E v \in Views : JobMap(v)
    \/ \E v \in Views : JobComplete(v)

SpecReduce == Init /\ [][NextReduce]_vars

\* up to DocsTxs transactions of one operation each, without retries, before
\* a query_with_docs of a whole view or between its scan and its fetch
DocsTxs == 3
DocsContents == {"a", "b", "c"}
DocsHeaders == HeadersOf(DocsContents, {FirstGeneration})

\* a transaction that starts before the query or while the query has
\* returned and the documents are not yet fetched
BeginAroundScan(c) ==
    /\ qry.pc \in {"idle", "fetching"}
    /\ Begin(<<c>>)

\* a query_with_docs of the whole view while no transaction runs
WithDocsAfter(v) ==
    /\ tx.pc = "idle"
    /\ QueryWithDocs(v, NoQueryKey, QueryPolicy(v))

\* the fetch starts while no transaction runs
FetchBetween == tx.pc = "idle" /\ WithDocsFetch

NextDocs ==
    \/ \E c \in Collections : BeginAroundScan(c)
    \/ InsertOf(DocsContents, MaxDocId)
    \/ DeleteOf(DocsHeaders)
    \/ CommitWithin(DocsTxs)
    \/ \E v \in Views : WithDocsAfter(v)
    \/ QueryScan
    \/ FetchBetween
    \/ GetNext
    \/ WithDocsCollect
    \/ \E v \in Views : JobStart(v)
    \/ \E v \in Views : JobMap(v)
    \/ \E v \in Views : JobComplete(v)

SpecDocs == Init /\ [][NextDocs]_vars

\* a publish while fewer than published publishes were made
PublishWithin(published, database, topic) ==
    /\ clients.published < published
    /\ Publish(database, topic)

PublishToAllWithin(published, topics) ==
    /\ clients.published < published
    /\ PublishBytesToAll(topics)

\* up to MaxSubscribers subscribers of one database and up to MaxPublished
\* publishes to its topics or to lists of them
RelayDatabases == {<<1>>}

NextRelay ==
    \/ \E database \in RelayDatabases : CreateSubscriber(database)
    \/ \E id \in SubscriberIds, topic \in UserTopics : SubscribeTo(id, topic)
    \/ \E id \in SubscriberIds, topic \in UserTopics :
          UnsubscribeFrom(id, topic)
    \/ \E database \in RelayDatabases, topic \in UserTopics :
          PublishWithin(MaxPublished, database, topic)
    \/ \E id \in SubscriberIds : Receive(id)

SpecRelay == Init /\ [][NextRelay]_vars

\* up to MaxSubscribers subscribers of two databases, their subscriptions
\* and up to MaxDatabasePublished publishes through the databases, the
\* messages left in the queues
MaxDatabasePublished == 1

NextPubSub ==
    \/ \E database \in DatabaseNames : CreateSubscriber(database)
    \/ \E id \in SubscriberIds, topic \in UserTopics : SubscribeTo(id, topic)
    \/ \E database \in DatabaseNames, topic \in UserTopics :
          PublishWithin(MaxDatabasePublished, database, topic)
    \/ \E topics \in TopicLists(DatabaseNames) :
          PublishToAllWithin(MaxDatabasePublished, topics)

SpecPubSub == Init /\ [][NextPubSub]_vars

\* up to DeleteTxs transactions of one insert, update or delete each,
\* without retries, next to UpdateBefore queries of the views and the
\* Update-if-needed job; two documents share a key of the lazy view
DeleteTxs == 3
DeleteContents == {"a", "d"}
DeleteHeaders == HeadersOf(DeleteContents, {FirstGeneration})

NextDelete ==
    \/ \E c \in Collections : Begin(<<c>>)
    \/ InsertOf(DeleteContents, MaxInserted)
    \/ UpdateTo(DeleteContents)
    \/ DeleteOf(DeleteHeaders)
    \/ CommitWithin(DeleteTxs)
    \/ \E v \in Views : QueryStart(v, "UpdateBefore")
    \/ QueryScan
    \/ \E v \in Views : JobStart(v)
    \/ \E v \in Views : JobMap(v)
    \/ \E v \in Views : JobComplete(v)

SpecDelete == Init /\ [][NextDelete]_vars

\* list_executed_transactions over the transaction tree that n committed
\* transactions leave, n up to MaxLogged; with stride 2 every commit came
\* after an attempt that took an id of the tree's generator and was dropped
MaxLogged == 1001
LoggedCounts == {0, 1, 3, MaxLogged - 1, MaxLogged}
StartingIds == {None} \cup {Some(x) : x \in {0, 1, 2, 3, 4, MaxLogged, 2 * MaxLogged + 1}}
ResultLimits ==
    {None} \cup {Some(x) : x \in {0, 1, 2, LIST_TRANSACTIONS_MAX_RESULTS - 1,
                                  LIST_TRANSACTIONS_MAX_RESULTS,
                                  LIST_TRANSACTIONS_MAX_RESULTS + 1}}

InitLogged ==
    /\ \E n \in LoggedCounts, stride \in {1, 2} :
          /\ db = [EmptyTrees EXCEPT
                      !.transactions = [i \in 1..n |-> stride * i]]
          /\ idgen = [t \in TreeNames |->
                         IF t = "transactions" THEN stride * n + 1
                         ELSE FirstId]
    /\ tx = IdleTx
    /\ returned = NothingReturned
    /\ rd = IdleReader
    /\ job = [v \in Views |-> NoJob]
    /\ qry = IdleQuery
    /\ relay = EmptyRelay
    /\ clients = EmptyClients
    /\ listed = NothingListed
    /\ admin = NoDatabases
    /\ scanned = [v \in Views |-> {}]

NextList ==
    \E starting_id \in StartingIds, result_limit \in ResultLimits :
        ListExecutedTransactions(starting_id, result_limit)

SpecList == InitLogged /\ [][NextList]_vars

\* the databases of a storage: up to MaxDatabases of them, created under
\* names of up to MaxNameLen characters or by open_local
MaxDatabases == 2
MaxNameLen == 2
CreatedNames == SeqsUpTo(NameCharacters, MaxNameLen)

CreateWithin(databases, name, schema) ==
    /\ Len(admin.databases) < databases \/ ByNameKey(name) \in admin.by_name
    /\ CreateDatabase(name, schema)

NextAdmin ==
    \/ \E name \in CreatedNames, schema \in Schemas :
          CreateWithin(MaxDatabases, name, schema)
    \/ \E schema \in Schemas : OpenLocal(schema)

SpecAdmin == Init /\ [][NextAdmin]_vars

\* up to RaceTxs transactions of one operation each, without retries, next
\* to UpdateBefore queries and the two steps of the Update-if-needed job:
\* a transaction may commit between the job's scan and its transaction
RaceTxs == 3
RaceContents == {"a", "c"}

NextRace ==
    \/ \E c \in Collections : Begin(<<c>>)
    \/ InsertOf(RaceContents, MaxInserted)
    \/ UpdateTo(RaceContents)
    \/ Delete
    \/ CommitWithin(RaceTxs)
    \/ \E v \in Views : QueryStart(v, "UpdateBefore")
    \/ QueryScan
    \/ \E v \in Views : JobStart(v)
    \/ \E v \in Views : JobScan(v)
    \/ \E v \in Views : JobMapScanned(v)
    \/ \E v \in Views : JobComplete(v)

SpecRace == Init /\ [][NextRace]_vars

\* up to OpenTxs inserts next to UpdateBefore queries, the Update-if-needed
\* job and opens of the database by processes whose schema gives each view
\* one of the versions 1..MaxVersion, with and without integrity checks
OpenTxs == 2
MaxVersion == 2
OpenContents == {"a", "c"}
SchemaVersions == [Views -> 1..MaxVersion]

NextOpen ==
    \/ \E c \in Collections : Begin(<<c>>)
    \/ InsertOf(OpenContents, MaxInserted)
    \/ CommitWithin(OpenTxs)
    \/ \E check \in BOOLEAN, schema \in SchemaVersions : Open(check, schema)
    \/ \E v \in Views : QueryStart(v, "UpdateBefore")
    \/ QueryScan
    \/ \E v \in Views : JobStart(v)
    \/ \E v \in Views : JobMap(v)
    \/ \E v \in Views : JobComplete(v)

SpecOpen == Init /\ [][NextOpen]_vars

\* up to JobTxs single-operation transactions next to the queries of the
\* views; the workers of the dispatcher and the storage engine are fair:
\* up to OpsTxs transactions of at most MaxOps operations each, of known and
\* unknown collections, whose closure runs to its end without a conflict
\* or a storage error
OpsTxs == 2
OpsContents == {"a", "c"}
OpsHeaders == HeadersOf(OpsContents, FirstGeneration..MaxGen)

UpdateOf(headers, contents_set) ==
    \E c \in Collections, h \in headers, contents \in contents_set :
        Execute(UpdateOp(c, h, contents))

NextOps ==
    \/ \E collections \in SeqsUpTo(CollectionNames, MaxOps) : Begin(collections)
    \/ InsertOf(OpsContents, MaxInserted)
    \/ UpdateOf(OpsHeaders, OpsContents)
    \/ DeleteOf(OpsHeaders)
    \/ CommitWithin(OpsTxs)

SpecOps == Init /\ [][NextOps]_vars

\* a job that can take its next step takes it, a transaction that has
\* begun goes on to its end.  The mapper reads the trees between two
\* transactions and no transaction holds the trees for ever, so that the
\* mapper is strongly fair
JobTxs == 1

BeginWithin(txs, c) == Len(db.transactions) < txs /\ Begin(<<c>>)

TransactionStep ==
    \/ InsertOf(ViewContents, MaxInserted)
    \/ Delete
    \/ CommitWithin(JobTxs)

NextJobs ==
    \/ \E c \in Collections : BeginWithin(JobTxs, c)
    \/ TransactionStep
    \/ \E v \in Views, p \in AccessPolicies : QueryStart(v, p)
    \/ QueryScan
    \/ \E v \in Views : JobStart(v)
    \/ \E v \in Views : JobMap(v)
    \/ \E v \in Views : JobComplete(v)

SpecJobs ==
    /\ Init
    /\ [][NextJobs]_vars
    /\ WF_vars(TransactionStep)
    /\ \A v \in Views :
          WF_vars(JobStart(v)) /\ SF_vars(JobMap(v)) /\ WF_vars(JobComplete(v))

\* ================================================================== claims
IsLastChange(changed, i) ==
    \A j \in (i + 1)..Len(changed) :
        changed[j].collection # changed[i].collection
            \/ changed[j].id # changed[i].id

StoredAsReported(i) ==
    LET changed == returned.changed_documents[i]
        stored == db.documents[changed.collection][changed.id]
    IN IF changed.deleted THEN stored = NoDoc
       ELSE stored # NoDoc /\ stored.header = returned.results[i].header

UniqueViews == {v \in Views : Unique(v)}

\* ---- C1
\* C1: no step of an apply_transaction call other than its commit changes a
\* committed tree, so when the call returns an error every tree (documents,
\* entries, document-map, omitted, invalidated, transaction log) holds what
\* it held before the call, whatever the earlier operations had staged.
C1_AbortRestoresEveryTree ==
    [][(tx.pc = "running" /\ returned'.status # "ok")
          => (db' = db /\ (tx'.pc = "idle" => returned'.status = "err"))]_vars

C1_Witness ==
    /\ returned.status = "err"
    /\ returned.executed >= 1
    /\ returned.error.kind \in
          {"DocumentNotFound", "DocumentConflict", "UniqueKeyViolation"}

\* ---- C2
\* C2 (as stated): after a commit every entry of changed_documents reads
\* back as reported: the reported header when deleted is false, absent when
\* deleted is true.
C2_EveryChangeReadsBack ==
    returned.status = "ok" =>
        \A i \in 1..Len(returned.changed_documents) : StoredAsReported(i)

\* C2 (amended): after a commit the last entry of changed_documents of each
\* (collection, id) reads back as reported.
C2_LastChangeReadsBack ==
    returned.status = "ok" =>
        \A i \in 1..Len(returned.changed_documents) :
            IsLastChange(returned.changed_documents, i) => StoredAsReported(i)

C2_Witness ==
    /\ returned.status = "ok"
    /\ Len(returned.changed_documents) = 2
    /\ returned.changed_documents[1].id = returned.changed_documents[2].id
    /\ returned.changed_documents[2].deleted

\* ---- C3
\* C3: the ids of the transaction log are strictly increasing and gap-free.
C3_LogIdsGapFree ==
    \A i \in 1..(Len(db.transactions) - 1) :
        db.transactions[i + 1] = db.transactions[i] + 1

\* ---- C4
\* C4: in every committed state, all mappings of one key of a unique view
\* come from a single document id.
C4_OneDocumentPerUniqueKey ==
    \A v \in UniqueViews : \A k \in Keys :
        Cardinality(Sources(db.view_entries[v][k])) <= 1

C4_Witness ==
    /\ returned.error.kind = "UniqueKeyViolation"
    /\ \E v \in UniqueViews : \E k \in Keys :
          Sources(db.view_entries[v][k]) # {}

\* ---- C5
WouldViolate(trees, collection, contents, id) ==
    \E v \in UniqueViews :
        /\ ViewCollection(v) = collection
        /\ \E k \in Emit(v, contents) :
              Sources(trees.view_entries[v][k]) \ {id} # {}

C5_Raised ==
    tx.pc = "running" =>
        /\ \A c \in Collections, contents \in Contents, e \in EncryptionKeys :
              (idgen[c] <= MaxDocId
                  /\ WouldViolate(tx.trees, c, contents, idgen[c]))
              => ExecuteOperation(CurrentClosure,
                                  InsertOp(c, contents, e)).error.kind
                     = "UniqueKeyViolation"
        /\ \A c \in Collections, h \in Headers, contents \in Contents :
              LET doc == tx.trees.documents[c][h.id]
              IN (/\ doc # NoDoc
                  /\ doc.header.revision = h.revision
                  /\ doc.contents # contents
                  /\ WouldViolate(tx.trees, c, contents, h.id))
                 => ExecuteOperation(CurrentClosure,
                                     UpdateOp(c, h, contents)).error.kind
                        = "UniqueKeyViolation"

C5_Aborted ==
    (tx.pc = "running" /\ returned'.error.kind = "UniqueKeyViolation")
    => /\ tx'.pc = "idle"
       /\ returned'.status = "err"
       /\ db'.transactions = db.transactions
       /\ \A i \in 1..Len(tx.operations) :
             tx.operations[i].command = "Insert"
             => db'.documents[tx.operations[i].collection][tx.results[i].id]
                    = NoDoc
       /\ \A c \in Collections :
             idgen[c] <= MaxDocId => db'.documents[c][idgen[c]] = NoDoc

\* C5: an insert or update that makes a document emit a key of a unique
\* view whose entry holds a mapping of another document id (committed, or
\* staged earlier in the same transaction) raises UniqueKeyViolation, and a
\* call that returns UniqueKeyViolation has aborted: no document it inserted
\* exists afterwards and the transaction log is unchanged.
C5_UniqueKeyViolationAborts == []C5_Raised /\ [][C5_Aborted]_vars

C5_Witness ==
    /\ returned.error.kind = "UniqueKeyViolation"
    /\ returned.command = "Insert"
    /\ returned.executed >= 1

\* ---- C6
\* C6: a commit puts the id of every changed document into the invalidated
\* tree of every non-unique view of the document's collection and adds
\* nothing else to it, so an id that is already there leaves it unchanged.
C6_ChangedIdsInvalidated ==
    [][(tx.pc = "running" /\ returned'.status = "ok")
          => \A v \in Views \ UniqueViews :
                db'.invalidated[v] = db.invalidated[v] \cup
                    {returned'.changed_documents[i].id :
                        i \in {j \in 1..Len(returned'.changed_documents) :
                                 returned'.changed_documents[j].collection
                                     = ViewCollection(v)}}]_vars

C6_Witness ==
    /\ returned.status = "ok"
    /\ \E i \in 1..Len(returned.results) :
          returned.results[i].header.revision.generation > FirstGeneration
    /\ \E i \in 1..Len(returned.changed_documents) :
          returned.changed_documents[i].deleted

\* ---- C7
MappedKeys(v, doc) == IF doc = NoDoc THEN {} ELSE Emit(v, doc.contents)

\* C7: in every committed state, for every unique view, document_map[id] is
\* the set of keys the stored document emits (no row for an absent one), the
\* mappings of each key are exactly one per document emitting it, and the
\* view's invalidated tree is empty.
C7_UniqueViewsReflectDocuments ==
    \A v \in UniqueViews :
        /\ \A id \in DocIds :
              db.document_map[v][id]
                  = MappedKeys(v, db.documents[ViewCollection(v)][id])
        /\ \A k \in Keys :
              LET entry == db.view_entries[v][k]
              IN /\ Sources(entry) =
                       {id \in DocIds :
                          k \in MappedKeys(v,
                                   db.documents[ViewCollection(v)][id])}
                 /\ Len(entry.mappings) = Cardinality(Sources(entry))
        /\ db.invalidated[v] = {}

C7_Witness ==
    /\ returned.status = "ok"
    /\ \E i \in 1..Len(returned.changed_documents) :
          returned.changed_documents[i].deleted
    /\ \E id \in DocIds :
          db.documents["c1"][id].header.revision.generation > FirstGeneration

\* ---- C8
\* C8: a get_multiple that overlaps at most one commit returns what reading
\* all its ids before that commit, or all of them after it, returns.
C8_ReadsOneSnapshot ==
    (rd.pc = "done"
        /\ Len(rd.after.transactions) <= Len(rd.before.transactions) + 1)
    => \/ rd.found_docs = ReadAll(rd.before, rd.collection, rd.ids)
       \/ rd.found_docs = ReadAll(rd.after, rd.collection, rd.ids)

\* ---- C9
ScannedSources(entries, k) ==
    UNION {Sources(entries[i]) : i \in {j \in 1..Len(entries) :
                                           entries[j].key = k}}

\* C9: when a query with UpdateBefore has returned, every document that was
\* committed when the query started and has not changed since is out of the
\* view's invalidated tree and has its mappings in the returned entries.
C9_UpdateBeforeIsCurrent ==
    (qry.pc = "done" /\ qry.access_policy = "UpdateBefore")
    => \A id \in DocIds :
          LET c == ViewCollection(qry.view)
              doc == qry.start.documents[c][id]
          IN (doc # NoDoc /\ db.documents[c][id] = doc)
             => /\ id \notin db.invalidated[qry.view]
                /\ \A k \in Emit(qry.view, doc.contents) :
                      id \in ScannedSources(qry.entries, k)

\* ---- C10
C10_Checked ==
    tx.pc = "running" =>
        \A c \in Collections, h \in Headers, contents \in Contents :
            LET doc == tx.trees.documents[c][h.id]
                st == ExecuteOperation(CurrentClosure,
                                       UpdateOp(c, h, contents))
            IN /\ doc = NoDoc
                    => st.error = ErrorOf("DocumentNotFound", c, h.id)
               /\ (doc # NoDoc /\ doc.header.revision # h.revision)
                    => st.error = ErrorOf("DocumentConflict", c, h.id)
               /\ st.trees.documents # tx.trees.documents
                    => (doc # NoDoc /\ doc.header.revision = h.revision)

C10_Aborted ==
    (tx.pc = "running"
        /\ returned'.error.kind \in {"DocumentNotFound", "DocumentConflict"})
    => (tx'.pc = "idle" /\ returned'.status = "err" /\ db' = db)

\* C10: an Update of an absent id raises DocumentNotFound, an Update whose
\* revision differs from the stored one raises DocumentConflict, either one
\* aborts the transaction, and an Update writes a document only when the
\* supplied revision equals the stored one.
C10_UpdateChecksRevision == []C10_Checked /\ [][C10_Aborted]_vars

C10_Witness ==
    /\ returned.error.kind = "DocumentConflict"
    /\ returned.command = "Update"
    /\ \E id \in DocIds :
          /\ returned.error.id = id
          /\ db.documents["c1"][id] # NoDoc
          /\ db.documents["c1"][id].header.revision.generation
                > FirstGeneration

\* ---- C11
OtherKeyId == "key1"

\* the headers a caller can supply: any id, revision and encryption key
AnyHeaders ==
    Headers \cup {[h EXCEPT !.encryption_key = OtherKeyId] : h \in Headers}

C11_Checked ==
    tx.pc = "running" =>
        \A c \in Collections, h \in AnyHeaders :
            LET doc == tx.trees.documents[c][h.id]
                st == ExecuteOperation(CurrentClosure, DeleteOp(c, h))
            IN /\ doc = NoDoc
                    => st.error = ErrorOf("DocumentNotFound", c, h.id)
               /\ (doc # NoDoc /\ doc.header # h)
                    => st.error = ErrorOf("DocumentConflict", c, h.id)
               /\ st.error # NoError => st.trees = tx.trees
               /\ (doc # NoDoc /\ doc.header = h)
                    => /\ st.error = NoError
                       /\ st.trees.documents =
                             [tx.trees.documents EXCEPT ![c][h.id] = NoDoc]
                       /\ st.results[Len(st.results)]
                             = DocumentDeleted(c, h.id)
                       /\ \A v \in UniqueViews :
                             /\ st.trees.document_map[v][h.id] = {}
                             /\ h.id \notin st.trees.omitted[v]
                             /\ \A k \in Keys :
                                   Sources(st.trees.view_entries[v][k])
                                     = Sources(tx.trees.view_entries[v][k])
                                           \ {h.id}

C11_Aborted ==
    (tx.pc = "running" /\ returned'.status = "err"
        /\ returned'.command = "Delete")
    => /\ returned'.error.kind \in {"DocumentNotFound", "DocumentConflict"}
       /\ tx'.pc = "idle"
       /\ db' = db

\* C11: a Delete of an absent id raises DocumentNotFound and a Delete whose
\* header differs from the stored header (id, revision or encryption key)
\* raises DocumentConflict, either one aborting the transaction; otherwise
\* the document leaves the collection tree, its mappings leave every unique
\* view and the result is DocumentDeleted with its id.
C11_DeleteChecksHeader == []C11_Checked /\ [][C11_Aborted]_vars

C11_Witness ==
    /\ returned.status = "ok"
    /\ returned.executed = 1
    /\ returned.results[1].kind = "DocumentDeleted"
    /\ db.documents["c1"][returned.results[1].id] = NoDoc
    /\ \E id \in DocIds : db.documents["c1"][id] # NoDoc

\* ---- C12
C12_Checked ==
    tx.pc = "running" =>
        \A c \in Collections, h \in AnyHeaders :
            LET doc == tx.trees.documents[c][h.id]
                st == ExecuteOperation(CurrentClosure,
                                       UpdateOp(c, h, doc.contents))
            IN (doc # NoDoc /\ doc.header.revision = h.revision)
               => /\ st.error = NoError
                  /\ st.results[Len(st.results)]
                        = DocumentUpdated(c, doc.header)
                  /\ st.trees.documents = tx.trees.documents
                  /\ st.trees.view_entries = tx.trees.view_entries
                  /\ st.trees.document_map = tx.trees.document_map
                  /\ st.trees.omitted = tx.trees.omitted

C12_Committed ==
    (/\ tx.pc = "running"
     /\ tx'.pc = "running"
     /\ Len(tx'.operations) = Len(tx.operations) + 1
     /\ LET op == tx'.operations[Len(tx'.operations)]
        IN /\ op.command = "Update"
           /\ op.contents = tx.trees.documents[op.collection][op.header.id]
                               .contents)
    => /\ tx'.trees = tx.trees
       /\ tx'.results[Len(tx'.results)].header
             = tx.trees.documents[tx'.operations[Len(tx'.operations)].collection]
                                 [tx'.operations[Len(tx'.operations)].header.id]
                  .header

\* C12: an Update that carries the current revision and the stored contents
\* succeeds with the stored header (same generation and hash) and writes
\* nothing: the document and the entries, document-map and omitted trees of
\* every unique view stay as they are.
C12_SameContentsChangesNothing == []C12_Checked /\ [][C12_Committed]_vars

C12_Witness ==
    /\ returned.status = "ok"
    /\ Len(returned.results) = 2
    /\ returned.results[1].kind = "DocumentUpdated"
    /\ returned.results[2] = returned.results[1]
    /\ db.documents["c1"][returned.results[1].id].header
          = returned.results[1].header

\* ---- C13
\* a step of the closure that executes one more operation successfully
ExecutedOne ==
    /\ tx.pc = "running"
    /\ tx'.pc = "running"
    /\ Len(tx'.operations) = Len(tx.operations) + 1

C13_Generations ==
    ExecutedOne =>
        LET op == tx'.operations[Len(tx'.operations)]
            result == tx'.results[Len(tx'.results)]
            old == tx.trees.documents[op.collection][result.id]
            new == tx'.trees.documents[op.collection][result.id]
        IN /\ op.command = "Insert"
                => /\ old = NoDoc
                   /\ new.header = result.header
                   /\ result.header.revision.generation = FirstGeneration
           /\ op.command = "Update"
                => /\ new.header = result.header
                   /\ result.header.revision.generation =
                         old.header.revision.generation
                           + (IF op.contents # old.contents THEN 1 ELSE 0)
           /\ op.command = "Delete" => new = NoDoc
           /\ \A c \in Collections, id \in DocIds :
                 (c # op.collection \/ id # result.id)
                 => tx'.trees.documents[c][id] = tx.trees.documents[c][id]

C13_OnlyCommitsStore ==
    db'.documents # db.documents
    => /\ tx.pc = "running"
       /\ returned'.status = "ok"
       /\ db'.documents = tx.trees.documents

\* C13 (as stated, second half): after a commit the header of every
\* DocumentUpdated result is the header stored for its document.
C13_EveryResultHeaderStored ==
    returned.status = "ok" =>
        \A i \in 1..Len(returned.results) :
            returned.results[i].kind = "DocumentUpdated"
            => db.documents[returned.results[i].collection]
                           [returned.results[i].id].header
                  = returned.results[i].header

C13_LastResultHeaderStored ==
    returned.status = "ok" =>
        \A i \in 1..Len(returned.results) :
            (returned.results[i].kind = "DocumentUpdated"
                /\ IsLastChange(returned.changed_documents, i))
            => db.documents[returned.results[i].collection]
                           [returned.results[i].id].header
                  = returned.results[i].header

\* C13 (amended): an Insert stores generation 1, an Update adds exactly 1 to
\* the stored generation when its contents differ from the stored contents
\* and 0 otherwise, no other step changes a stored generation, and after a
\* commit the header of the last result of each document that the
\* transaction did not delete is the header stored for it.
C13_GenerationCountsRevisions ==
    /\ []C13_LastResultHeaderStored
    /\ [][C13_Generations /\ C13_OnlyCommitsStore]_vars

C13_Witness ==
    /\ returned.status = "ok"
    /\ Len(returned.results) = 2
    /\ returned.results[1].id = returned.results[2].id
    /\ returned.results[1].header.revision.generation = FirstGeneration
    /\ returned.results[2].header.revision.generation = FirstGeneration + 1
    /\ db.documents["c1"][returned.results[2].id].header
          = returned.results[2].header

\* ---- C14
\* the header the preceding operations of the transaction leave for an id:
\* the header of the last result for it, else the committed header
AliveHeader(c, id) ==
    LET earlier == {i \in 1..Len(tx.results) :
                       tx.results[i].collection = c /\ tx.results[i].id = id}
    IN IF earlier = {} THEN db.documents[c][id].header
       ELSE tx.results[CHOOSE i \in earlier : \A j \in earlier : j <= i].header

\* the engine's id generators when the closure last started
IdgenAtStart ==
    [t \in TreeNames |->
        IF t \in Collections THEN idgen[t] - Inserts(tx.operations, t)
        ELSE idgen[t]]

C14_Evaluated ==
    tx.pc = "running" =>
        /\ \A c \in Collections, h \in Headers, contents \in Contents :
              LET expected == AliveHeader(c, h.id)
                  upd == ExecuteOperation(CurrentClosure,
                                          UpdateOp(c, h, contents)).error
                  del == ExecuteOperation(CurrentClosure, DeleteOp(c, h)).error
              IN /\ expected = NoHeader
                      => /\ upd = ErrorOf("DocumentNotFound", c, h.id)
                         /\ del = ErrorOf("DocumentNotFound", c, h.id)
                 /\ (expected # NoHeader /\ expected.revision # h.revision)
                      => /\ upd = ErrorOf("DocumentConflict", c, h.id)
                         /\ del = ErrorOf("DocumentConflict", c, h.id)
                 /\ (expected # NoHeader /\ expected.revision = h.revision)
                      => /\ upd.kind \in {"none", "UniqueKeyViolation"}
                         /\ expected = h => del = NoError
        /\ Len(tx.results) = Len(tx.operations)
        /\ \A i \in 1..Len(tx.operations) :
              LET op == tx.operations[i]
                  result == tx.results[i]
              IN /\ result.collection = op.collection
                 /\ op.command = "Delete"
                      => result = DocumentDeleted(op.collection, op.header.id)
                 /\ op.command = "Update"
                      => /\ result.kind = "DocumentUpdated"
                         /\ result.id = op.header.id
                         /\ result.header.revision.sha256 = Sha256(op.contents)
                 /\ op.command = "Insert"
                      => /\ result.kind = "DocumentUpdated"
                         /\ result.header.revision = NewRevision(op.contents)
        /\ tx.trees =
              RunOperations([Closure(db) EXCEPT !.idgen = IdgenAtStart],
                            tx.operations).trees

C14_ResultsReturned ==
    (tx.pc = "running" /\ returned'.status = "ok")
    => /\ returned'.results = tx.results
       /\ Len(returned'.results) = Len(tx.collections)
       /\ db'.documents = tx.trees.documents

\* C14: each operation of a transaction is evaluated against the documents
\* the preceding operations of the same transaction left (an Update or
\* Delete of an id changed earlier succeeds only with the revision of the
\* earlier result, and fails with DocumentNotFound after an earlier Delete),
\* and the call returns one result per operation, in operation order.
C14_OperationsInListOrder == []C14_Evaluated /\ [][C14_ResultsReturned]_vars

C14_Witness ==
    /\ returned.status = "ok"
    /\ Len(returned.results) = 2
    /\ returned.results[1].kind = "DocumentUpdated"
    /\ returned.results[1].header.revision.generation = FirstGeneration + 1
    /\ returned.results[2] = DocumentDeleted("c1", returned.results[1].id)

\* ---- C15
OperationErrors == {"DocumentNotFound", "DocumentConflict", "UniqueKeyViolation"}

\* the operations a caller can put at one place of a transaction
OperationsIn(c) ==
    {InsertOp(c, contents, e) : contents \in Contents, e \in EncryptionKeys}
    \cup {UpdateOp(c, h, contents) : h \in Headers, contents \in Contents}
    \cup {DeleteOp(c, h) : h \in Headers}

OperationLists(collections) ==
    {ops \in [1..Len(collections) -> UNION {OperationsIn(c) : c \in Collections}] :
        \A i \in 1..Len(collections) : ops[i].collection = collections[i]}

FirstUnknown(collections) ==
    CHOOSE i \in 1..Len(collections) :
        /\ collections[i] \notin Collections
        /\ \A j \in 1..(i - 1) : collections[j] \in Collections

\* C15 (as stated): the error a failed call returns is the error of the
\* first operation in list order that fails, so when it is the
\* CollectionNotFound of an operation, no operation placed before that one
\* fails.
C15_FirstFailingOperationReported ==
    returned.error.kind = "CollectionNotFound" =>
        LET before == SubSeq(returned.collections, 1,
                             FirstUnknown(returned.collections) - 1)
        IN \A ops \in OperationLists(before) :
              (\A c \in Collections : idgen[c] + Inserts(ops, c) <= MaxDocId + 1)
              => RunOperations(Closure(db), ops).error = NoError

C15_Reported ==
    (tx.pc = "running" /\ returned'.status = "err" /\ returned'.command # "-")
    => LET n == returned'.executed
           error == returned'.error
           replayed == RunOperations(Closure(db), SubSeq(tx.operations, 1, n))
           trees == IF n = Len(tx.operations) THEN tx.trees ELSE replayed.trees
           doc == trees.documents[error.collection][error.id]
       IN /\ error.kind \in OperationErrors
          /\ n < Len(tx.collections)
          /\ n = Len(tx.operations) => Len(tx.results) = n
          /\ n < Len(tx.operations)
                => /\ replayed.error = NoError
                   /\ returned'.command = tx.operations[n + 1].command
                   /\ ExecuteOperation(replayed, tx.operations[n + 1]).error
                         = error
          /\ error.collection = tx.collections[n + 1]
          /\ error.kind = "DocumentNotFound"
                => (returned'.command \in {"Update", "Delete"} /\ doc = NoDoc)
          /\ error.kind = "DocumentConflict"
                => (returned'.command \in {"Update", "Delete"} /\ doc # NoDoc)
          /\ error.kind = "UniqueKeyViolation"
                => returned'.command \in {"Insert", "Update"}
          /\ IntoCore(ServerCore(error)) = error
          /\ tx'.pc = "idle"

C15_Rejected ==
    returned.error.kind = "CollectionNotFound"
    => /\ returned.error = ErrorOf("CollectionNotFound", "-", 0)
       /\ returned.executed = 0
       /\ IntoCore(ServerCore(returned.error)) = returned.error

\* C15 (amended): a call whose operations all name collections of the
\* schema and that fails in an operation returns exactly the error of the
\* first operation in list order that fails, unchanged by the server's
\* conversion; a call with an operation of an unknown collection returns
\* CollectionNotFound whatever the operations before it would have done.
C15_FirstExecutedFailureReported == []C15_Rejected /\ [][C15_Reported]_vars

C15_Witness ==
    /\ returned.status = "err"
    /\ returned.executed = 1
    /\ returned.attempts = 2
    /\ returned.error.kind = "DocumentNotFound"

\* ---- C16
C16_Validated ==
    tx.pc = "running" =>
        \A i \in 1..Len(tx.collections) : tx.collections[i] \in Collections

C16_NothingDone ==
    returned'.error.kind = "CollectionNotFound"
    => /\ \E i \in 1..Len(returned'.collections) :
             returned'.collections[i] \notin Collections
       /\ tx.pc = "idle"
       /\ UNCHANGED <<db, idgen, tx>>
       /\ returned'.results = <<>>

\* C16: a call with an operation of a collection that is not in the schema
\* returns CollectionNotFound without starting the closure: no operation
\* runs, no id is taken from a generator and no tree changes; a closure
\* that runs has operations of known collections only.
C16_UnknownCollectionRejected == []C16_Validated /\ [][C16_NothingDone]_vars

C16_Witness ==
    /\ returned.error.kind = "CollectionNotFound"
    /\ Len(returned.collections) = 2
    /\ returned.collections[1] \in Collections
    /\ \E id \in DocIds : db.documents["c1"][id] # NoDoc

\* ---- C17
C17_Allowed ==
    returned.error.kind = "CollectionNotFound" => returned.collections # <<>>

C17_Empty ==
    (tx.pc = "running" /\ tx.collections = <<>> /\ tx'.pc = "idle")
    => /\ returned'.status = "err" => returned'.error.kind = "Database"
       /\ returned'.status = "ok" => returned'.results = <<>>
       /\ db'.documents = db.documents
       /\ db'.view_entries = db.view_entries
       /\ db'.document_map = db.document_map
       /\ db'.omitted = db.omitted
       /\ db'.invalidated = db.invalidated

\* C17: a transaction without operations is not rejected; unless the engine
\* fails it returns an empty result list, and it leaves every collection
\* tree, view tree and invalidated tree as it was.
C17_EmptyTransactionAllowed == []C17_Allowed /\ [][C17_Empty]_vars

C17_Witness ==
    /\ returned.status = "ok"
    /\ returned.executed = 0
    /\ returned.results = <<>>
    /\ \E id \in DocIds : db.documents["c1"][id] # NoDoc
    /\ db.invalidated["N"] # {}

\* ---- C18
\* the step of a query that scans the entries tree
ScanStep == qry.pc = "scanning" /\ qry'.pc = "done"

UpToDate(v) == db.invalidated[v] = {}

\* the mappings the stored documents emit for the keys from a up to b - 1
EmittedMappings(v, a, b) ==
    UNION {{[source |-> id, key |-> k,
             value |-> EmitValue(v, db.documents[ViewCollection(v)][id].contents)] :
               k \in MappedKeys(v, db.documents[ViewCollection(v)][id])
                        \cap a..(b - 1)} :
           id \in DocIds}

C18_RangeScan ==
    (ScanStep /\ qry.key.kind = "Range" /\ UpToDate(qry.view))
    => LET mappings == QueryMappings(qry'.entries)
           expected == EmittedMappings(qry.view, qry.key.start, qry.key.end)
       IN /\ {mappings[i] : i \in 1..Len(mappings)} = expected
          /\ Len(mappings) = Cardinality(expected)
          /\ \A i, j \in 1..Len(mappings) :
                i < j => mappings[i].key <= mappings[j].key
          /\ qry.key.start = qry.key.end => mappings = <<>>

\* C18: a query with Range(a..b), a <= b, of a view whose invalidated tree
\* is empty returns one mapping per stored document and emitted key k with
\* a <= k < b, and nothing else, in ascending key order; nothing when a = b.
C18_RangeIsHalfOpen == [][C18_RangeScan]_vars

C18_Witness ==
    /\ qry.pc = "done"
    /\ qry.view = "N"
    /\ qry.key = RangeKey(1, 3)
    /\ UpToDate("N")
    /\ Len(QueryMappings(qry.entries)) = 2
    /\ \A i \in 1..2 : QueryMappings(qry.entries)[i].key = 1
    /\ db.view_entries["N"][3] # NoEntry

\* ---- C19
\* three documents were inserted, two of them are stored and emit 1 and
\* 3, and the last transaction deleted the third: the three were stored
\* together, so in a unique view the third emitted 2
ThreeInsertedOneDeleted(v) ==
    /\ Unique(v)
    /\ returned.status = "ok"
    /\ Len(returned.results) = 1
    /\ returned.results[1].kind = "DocumentDeleted"
    /\ idgen[ViewCollection(v)] = FirstId + 3
    /\ {MappedKeys(v, db.documents[ViewCollection(v)][id]) : id \in DocIds}
          = {{1}, {3}, {}}
    /\ UpToDate(v)

MappingKeys(entries) ==
    [i \in 1..Len(QueryMappings(entries)) |-> QueryMappings(entries)[i].key]

\* C19 (as stated): in that state the query of the range from 1 with end
\* bound 3 returns two mappings, of the keys 1 and 3.
C19_EndBoundIncluded ==
    (qry.pc = "done" /\ ThreeInsertedOneDeleted(qry.view)
        /\ qry.key = RangeKey(1, 3))
    => MappingKeys(qry.entries) = <<1, 3>>

\* C19 (amended): in that state the query of Range(1..3) returns the one
\* mapping of key 1 (the end bound is excluded) and the query of
\* Range(1..4) returns two mappings, of the keys 1 and 3; the key of the
\* deleted document is in neither.
C19_EndBoundExcluded ==
    (qry.pc = "done" /\ ThreeInsertedOneDeleted(qry.view)
        /\ qry.key.kind = "Range" /\ qry.key.start = 1)
    => /\ qry.key.end = 3 => MappingKeys(qry.entries) = <<1>>
       /\ qry.key.end = 4
            => /\ MappingKeys(qry.entries) = <<1, 3>>
               /\ \A i \in 1..2 :
                     db.documents[ViewCollection(qry.view)]
                                 [QueryMappings(qry.entries)[i].source] # NoDoc

C19_Witness ==
    /\ qry.pc = "done"
    /\ ThreeInsertedOneDeleted(qry.view)
    /\ qry.key = RangeKey(1, 4)
    /\ Len(QueryMappings(qry.entries)) = 2

\* ---- C20
\* the n-th smallest element of a set of numbers
NthOf(S, n) == CHOOSE i \in S : Cardinality({j \in S : j < i}) = n - 1

C20_KeyLookups ==
    (ScanStep /\ qry.key.kind \in {"Multiple", "Matches"})
    => LET keys == qry.key.keys
           tree == db.view_entries[qry.view]
           present == {i \in 1..Len(keys) : tree[keys[i]] # NoEntry}
           entries == qry'.entries
       IN /\ Len(entries) = Cardinality(present)
          /\ \A n \in 1..Len(entries) :
                /\ entries[n].key = keys[NthOf(present, n)]
                /\ entries[n].mappings = tree[keys[NthOf(present, n)]].mappings
          /\ qry.key.kind = "Matches"
                => entries = CreateViewIterator(tree,
                                 Serialized(MultipleKey(keys)))

\* C20: a query with Multiple(keys) returns, for each place of the caller's
\* list in turn, the entry of the key at that place when the tree holds
\* one and nothing when it holds none, so the entries follow the list's
\* order and not the key order; Matches(k) returns what Multiple([k])
\* returns.
C20_MultipleFollowsList == [][C20_KeyLookups]_vars

C20_Witness ==
    /\ qry.pc = "done"
    /\ qry.key.kind = "Multiple"
    /\ Len(qry.entries) = 2
    /\ qry.entries[1].key > qry.entries[2].key

\* ---------------------------------------------------------------------- C21
\* the (key, reduced value) pairs a grouped reduce of the whole view returns
\* from the current entries tree
GroupedValues(v) == GroupedReduceInView(ScanEntries(db.view_entries[v]))

C21_Reduced ==
    (ScanStep /\ qry.call = "reduce" /\ qry.key = NoQueryKey)
    => qry'.value = Rereduce(qry.view, GroupedValues(qry.view))

StoredReducedValue(i) ==
    db.view_entries[qry.view][qry'.entries[i].key].reduced_value

C22_ReduceScan ==
    (ScanStep /\ qry.call \in {"reduce", "reduce_grouped"})
    => LET n == Len(qry'.entries)
           pairs == [i \in 1..n |->
                        [key |-> AsBigEndianBytes(qry'.entries[i].key),
                         value |-> StoredReducedValue(i)]]
       IN /\ qry'.entries =
                CreateViewIterator(db.view_entries[qry.view],
                                   Serialized(qry.key))
          /\ qry.call = "reduce_grouped"
                => qry'.mappings = pairs /\ qry'.reduce_calls = 0
          /\ (qry.call = "reduce" /\ n = 1)
                => /\ qry'.value = StoredReducedValue(1)
                   /\ qry'.reduce_calls = 0
          /\ (qry.call = "reduce" /\ n # 1)
                => /\ qry'.value = Rereduce(qry.view, pairs)
                   /\ qry'.reduce_calls = 1

\* C22: a grouped reduce returns one (key, stored reduced value) pair per
\* matched entry, in scan order; an ungrouped reduce over exactly one matched
\* entry returns that entry's stored reduced value without calling the
\* view's reduce; over any other number of matched entries it returns the
\* view's reduce with rereduce = true over the matched entries' pairs.
C22_ReduceBranches == [][C22_ReduceScan]_vars

\* an ungrouped reduce that matched one entry of two mappings and returned
\* its stored value without a call of the view's reduce
C22_Witness ==
    /\ qry.pc = "done"
    /\ qry.call = "reduce"
    /\ Len(qry.entries) = 1
    /\ qry.entries[1].reduced_value = 2
    /\ qry.value = 2
    /\ qry.reduce_calls = 0
    /\ \E k \in Keys \ {qry.entries[1].key} :
          db.view_entries[qry.view][k] # NoEntry

\* ---------------------------------------------------------------------- C23
\* the documents the fetch of query_with_docs found, by id
Fetched == {rd.found_docs[i].header.id : i \in 1..Len(rd.found_docs)}

\* the mappings of the query whose source document the fetch found, each
\* with that document, in the order of the mappings
RECURSIVE WithFetched(_)
WithFetched(results) ==
    IF results = <<>> THEN <<>>
    ELSE (IF Head(results).source \in Fetched
          THEN <<[key |-> Head(results).key, value |-> Head(results).value,
                  source |-> DocumentsById(rd.found_docs)
                                [Head(results).source]]>>
          ELSE <<>>)
         \o WithFetched(Tail(results))

C23_Collected ==
    (qry.pc = "collecting" /\ qry'.pc = "done")
    => qry'.documents = WithFetched(QueryMappings(qry.entries))

\* C23: query_with_docs returns, in the order of the mappings of its query,
\* one (key, value, document) result for every mapping whose source document
\* the fetch found, and drops only the mappings whose source document was
\* deleted, also when several mappings have the same source document.
C23_EveryMappingWithItsDocument == [][C23_Collected]_vars

\* ---------------------------------------------------------------------- C24
\* a call of for_each_in_view begins
CallStep == qry.pc \in {"idle", "done"} /\ qry'.pc \in {"waiting", "scanning"}

C24_Called ==
    (CallStep /\ qry'.access_policy \in {"NoUpdate", "UpdateAfter"})
    => /\ qry'.pc = "scanning"
       /\ job' = job
       /\ db' = db

C24_Scanned ==
    (ScanStep /\ qry.access_policy \in {"NoUpdate", "UpdateAfter"})
    => /\ qry'.entries = ScanEntries(db.view_entries[qry.view])
       /\ db' = db
       /\ \A v \in Views \ {qry.view} : job'[v] = job[v]
       /\ qry.access_policy = "NoUpdate" => job' = job
       /\ qry.access_policy = "UpdateAfter"
            => /\ job'[qry.view].waiters = job[qry.view].waiters
               /\ job'[qry.view].state =
                     IF job[qry.view].state = "none" THEN "queued"
                     ELSE job[qry.view].state

\* C24: a call with NoUpdate or UpdateAfter waits for no update: it goes
\* straight to the scan, returns the content the entries tree has at the
\* scan and changes no tree; with NoUpdate it leaves the dispatcher's jobs
\* alone, with UpdateAfter it enqueues the view's Update-if-needed (or joins
\* the one already there) in the step that has collected the result, so the
\* job it enqueued starts only afterwards.
C24_NoWaitingWithoutUpdateBefore == [][C24_Called /\ C24_Scanned]_vars

\* an UpdateAfter query of the lazy view has returned no mapping although a
\* document that emits a key is stored and still invalidated, and the
\* Update-if-needed it enqueued has not started
C24_Witness ==
    /\ qry.pc = "done"
    /\ qry.access_policy = "UpdateAfter"
    /\ ~Unique(qry.view)
    /\ qry.entries = <<>>
    /\ job[qry.view].state = "queued"
    /\ \E id \in DocIds :
          /\ id \in db.invalidated[qry.view]
          /\ MappedKeys(qry.view, db.documents[ViewCollection(qry.view)][id])
                # {}

\* ---------------------------------------------------------------------- C25
\* the messages a step added to the queue of a subscriber
NewMessages(id) ==
    SubSeq(relay'.queues[id], Len(relay.queues[id]) + 1,
           Len(relay'.queues[id]))

QueueKept(id) ==
    /\ Len(relay'.queues[id]) >= Len(relay.queues[id])
    /\ SubSeq(relay'.queues[id], 1, Len(relay.queues[id])) = relay.queues[id]

Subscribed(id, topic) == id \in relay.subscribers /\ <<topic, id>> \in relay.topics

C25_PublishStep ==
    \A database \in DatabaseNames, topic \in UserTopics :
        Publish(database, topic)
        => \A id \in SubscriberIds :
              /\ QueueKept(id)
              /\ NewMessages(id) =
                    IF Subscribed(id, DatabaseTopic(database, topic))
                    THEN <<Message(DatabaseTopic(database, topic),
                                   NextPayload)>>
                    ELSE <<>>

\* C25: a publish puts exactly one message with its topic and payload into
\* the queue of every subscriber that is subscribed to exactly that topic
\* when it is made, and nothing into the queue of any other subscriber.
C25_PublishReachesItsSubscribers == [][C25_PublishStep]_vars

\* two publishes were made, one per topic; each of two subscribers of one
\* topic each holds the one message of its topic
C25_Witness ==
    /\ clients.published = 2
    /\ \E a, b \in TopicBytes(RelayDatabases) :
          /\ a # b
          /\ {t \in TopicBytes(RelayDatabases) : Subscribed(1, t)} = {a}
          /\ {t \in TopicBytes(RelayDatabases) : Subscribed(2, t)} = {b}
          /\ relay.queues[1] = <<Message(a, 1)>>
          /\ relay.queues[2] = <<Message(b, 2)>>

\* ---------------------------------------------------------------------- C26
\* what a subscriber received and has still to receive, oldest first
Delivered(id) == clients.received[id] \o relay.queues[id]

C27_UnsubscribeStep ==
    \A id \in SubscriberIds, topic \in UserTopics :
        UnsubscribeFrom(id, topic)
        => LET bytes == DatabaseTopic(clients.database_name[id], topic)
           IN /\ relay'.topics = relay.topics \ {<<bytes, id>>}
              /\ relay'.queues = relay.queues

C27_SubscribeStep ==
    \A id \in SubscriberIds, topic \in UserTopics :
        SubscribeTo(id, topic)
        => LET bytes == DatabaseTopic(clients.database_name[id], topic)
           IN /\ relay'.topics = relay.topics \cup {<<bytes, id>>}
              /\ relay'.queues = relay.queues

C27_Delivery ==
    \A id \in SubscriberIds :
        /\ \A i \in 1..Len(NewMessages(id)) :
              Subscribed(id, NewMessages(id)[i].topic)
        /\ \/ QueueKept(id)
           \/ /\ relay.queues[id] # <<>>
              /\ relay'.queues[id] = Tail(relay.queues[id])

C28_PublishToAllStep ==
    \A topics \in TopicLists(DatabaseNames) :
        (clients'.published # clients.published /\ PublishBytesToAll(topics))
        => \A id \in SubscriberIds :
              LET named == {topics[i] : i \in 1..Len(topics)}
                  new == NewMessages(id)
              IN /\ QueueKept(id)
                 /\ {new[i].topic : i \in 1..Len(new)} =
                       {t \in named : Subscribed(id, t)}
                 /\ Len(new) = Cardinality({t \in named : Subscribed(id, t)})
                 /\ \A i \in 1..Len(new) : new[i].payload = NextPayload

ValidNames == UNION {[1..n -> 1..2] : n \in 1..2}
AnyTopics == UNION {[1..n -> 0..2] : n \in 0..2}

C29_Format ==
    \A database \in ValidNames, topic \in AnyTopics :
        LET bytes == DatabaseTopic(database, topic)
        IN /\ Len(bytes) = Len(database) + 1 + Len(topic)
           /\ SubSeq(bytes, 1, Len(database)) = database
           /\ bytes[Len(database) + 1] = 0
           /\ SubSeq(bytes, Len(database) + 2, Len(bytes)) = topic

C29_Injective ==
    \A d1 \in ValidNames, d2 \in ValidNames :
        \A t1 \in AnyTopics, t2 \in AnyTopics :
            DatabaseTopic(d1, t1) = DatabaseTopic(d2, t2)
            => d1 = d2 /\ t1 = t2

C29_PublishStep ==
    \A database \in DatabaseNames, topic \in UserTopics :
        Publish(database, topic)
        => \A id \in SubscriberIds :
              /\ \A i \in 1..Len(NewMessages(id)) :
                    NewMessages(id)[i].topic = DatabaseTopic(database, topic)
              /\ clients.database_name[id] # database
                    => relay'.queues[id] = relay.queues[id]

\* C29: database_topic is the name, one zero byte, then the topic, and the
\* delivered message carries these bytes; for names without a zero byte it
\* is injective in (name, topic), and a publish through one database puts
\* nothing into the queue of a subscriber of another database.
C29_TopicsStayInTheirDatabase ==
    /\ [](C29_Format /\ C29_Injective)
    /\ [][C29_PublishStep]_vars

\* a subscriber of each database is subscribed to the same user topic; one
\* publish through the first database reached only its subscriber
C29_Witness ==
    \E topic \in UserTopics :
        /\ clients.published = 1
        /\ clients.database_name[1] # clients.database_name[2]
        /\ Subscribed(1, DatabaseTopic(clients.database_name[1], topic))
        /\ Subscribed(2, DatabaseTopic(clients.database_name[2], topic))
        /\ relay.queues[1] =
              <<Message(DatabaseTopic(clients.database_name[1], topic), 1)>>
        /\ relay.queues[2] = <<>>

\* ---------------------------------------------------------------------- C30
\* a call asks the dispatcher for the Update-if-needed of view v
RequestStep(v) ==
    \/ CallStep /\ qry'.access_policy = "UpdateBefore" /\ qry'.view = v
    \/ ScanStep /\ qry.access_policy = "UpdateAfter" /\ qry.view = v

Active(j) == j.state # "none"

C30_Dispatched ==
    \A v \in Views :
        /\ RequestStep(v)
            => /\ job'[v].state = IF Active(job[v]) THEN job[v].state
                                  ELSE "queued"
               /\ job[v].waiters \subseteq job'[v].waiters
               /\ qry'.pc = "waiting" => Caller \in job'[v].waiters
        /\ (job'[v].state = "running" /\ job[v].state # "running")
            => job[v].state = "queued"
        /\ (Active(job[v]) /\ ~Active(job'[v]))
            => /\ job[v].state = "mapped"
               /\ job'[v].waiters = {}
               /\ (qry.pc = "waiting" /\ qry.view = v) => qry'.pc = "scanning"

C30_WaiterHasJob ==
    qry.pc = "waiting"
    => Active(job[qry.view]) /\ Caller \in job[qry.view].waiters

ViewTrees(trees, v) ==
    <<trees.view_entries[v], trees.document_map[v], trees.omitted[v],
      trees.invalidated[v]>>

\* mapping a document whose mapping is current writes nothing
C31_MapAgain ==
    \A v \in Views, id \in DocIds :
        LET once == MapDocument(db, v, id)
            again == MapDocument(once.trees, v, id)
        IN once.error = NoError
           => again.error = NoError /\ again.trees = once.trees

C31_Rerun ==
    \A v \in Views :
        JobMap(v)
        => /\ db.invalidated[v] = {} => db' = db
           /\ UpdateView(db', v) = db'
           /\ ViewTrees(UpdateView(db', v), v) = ViewTrees(db', v)

\* C31: Update-if-needed over a view with nothing invalidated writes nothing:
\* the entries, document-map, omitted and invalidated trees stay as they
\* are, also when it runs again right after a run; and mapping a document
\* once more with unchanged contents changes no tree.
C31_UpdateIsIdempotent == []C31_MapAgain /\ [][C31_Rerun]_vars

\* an UpdateBefore query waits for the job of the lazy view, which ran over
\* the trees the query found: nothing invalidated, a document mapped
C31_Witness ==
    /\ qry.pc = "waiting"
    /\ qry.view = "N"
    /\ job["N"].state = "mapped"
    /\ qry.start = db
    /\ db.invalidated["N"] = {}
    /\ \E id \in DocIds : db.document_map["N"][id] # {}

\* ---------------------------------------------------------------------- C32
\* the entry without the mappings of the documents in ids
WithoutSources(entry, ids) ==
    LET kept == SelectSeq(entry.mappings, LAMBDA m : m.source \notin ids)
    IN IF kept = <<>> THEN NoEntry
       ELSE [mappings |-> kept, reduced_value |-> SumValues(kept)]

\* the ids of the documents the running transaction deleted
DeletedBy(changed_documents) ==
    {changed_documents[i].id :
        i \in {j \in 1..Len(changed_documents) : changed_documents[j].deleted}}

\* the commit of a transaction of one delete, seen in the unique views
C32_AtCommit ==
    (Commit /\ Len(tx.operations) = 1)
    => \A id \in DeletedBy(tx.changed_documents) :
         \A v \in {u \in Views : Unique(u)} :
            /\ db'.document_map[v][id] = {}
            /\ \A k \in Keys :
                  db'.view_entries[v][k] =
                      IF k \in db.document_map[v][id]
                      THEN WithoutSources(db.view_entries[v][k], {id})
                      ELSE db.view_entries[v][k]

\* the run of Update-if-needed, seen in the view of the job
C32_AtUpdate ==
    \A v \in Views :
        JobMap(v)
        => LET deleted == {id \in db.invalidated[v] :
                              db.documents[ViewCollection(v)][id] = NoDoc}
           IN /\ \A id \in deleted : db'.document_map[v][id] = {}
              /\ \A k \in Keys :
                    LET old == db.view_entries[v][k]
                        new == db'.view_entries[v][k]
                    IN /\ Sources(new) \cap deleted = {}
                       /\ new.mappings = <<>> => new = NoEntry
                       /\ new.reduced_value = SumValues(new.mappings)
                       /\ Sources(old) \cap db.invalidated[v] \subseteq deleted
                          /\ (\A id \in db.invalidated[v] \ deleted :
                                k \notin Emit(v, db.documents[
                                            ViewCollection(v)][id].contents))
                          => new = WithoutSources(old, deleted)

\* C32: a deleted document's mapping leaves the entry of every key the
\* document contributed, and its row leaves the document-map: the entry is
\* removed with its last mapping, and otherwise keeps the other mappings
\* with a reduced value computed from them.  A unique view shows this at the
\* commit of the deleting transaction, a lazy view after its next
\* Update-if-needed.
C32_DeleteRemovesMapping == [][C32_AtCommit /\ C32_AtUpdate]_vars

\* an UpdateBefore query of the lazy view found two mappings in the entry of
\* key 1, one of them of a deleted document; the job has taken that mapping
\* out and kept the other
C32_Witness ==
    /\ qry.view = "N"
    /\ qry.pc = "scanning"
    /\ Len(qry.start.view_entries["N"][1].mappings) = 2
    /\ \E id \in Sources(qry.start.view_entries["N"][1]) :
          /\ qry.start.documents["c1"][id] = NoDoc
          /\ db.view_entries["N"][1] =
                WithoutSources(qry.start.view_entries["N"][1], {id})
          /\ db.document_map["N"][id] = {}
    /\ Len(db.view_entries["N"][1].mappings) = 1

\* ---------------------------------------------------------------------- C33
\* min(result_limit, 1000), an absent result_limit counting as 1000
C33_Limit(result_limit) ==
    IF ~result_limit.some \/ result_limit.value > 1000 THEN 1000
    ELSE result_limit.value

\* the positions of the log entries with an id of starting_id or more
C33_Matching(log, starting_id) ==
    {i \in 1..Len(log) : starting_id.some => log[i] >= starting_id.value}

\* the log is in ascending order of id, so that the entries from an id on
\* are the last ones of the log
C33_Listed ==
    listed' # listed
    => \A found \in {Cardinality(C33_Matching(db.transactions,
                                              listed'.starting_id))} :
         LET log == db.transactions
             limit == C33_Limit(listed'.result_limit)
             n == IF found < limit THEN found ELSE limit
             skipped == Len(log) - found
             results == listed'.results
         IN /\ \A i \in 1..(Len(log) - 1) : log[i] < log[i + 1]
            /\ \A i \in 1..Len(log) :
                  i > skipped <=> (listed'.starting_id.some
                                     => log[i] >= listed'.starting_id.value)
            /\ Len(results) = n
            /\ \A j \in 1..n : results[j] = log[skipped + j]
            /\ (listed'.result_limit.some /\ listed'.result_limit.value = 0)
               => results = <<>>

\* C33: list_executed_transactions returns the entries of the log whose id
\* is starting_id or more (all of them without a starting_id), in ascending
\* order of id, cut after min(result_limit, 1000) entries, no result_limit
\* counting as 1000; a result_limit of 0 returns the empty list.
C33_ListIsBoundedRange == [][C33_Listed]_vars

\* a log of 1001 entries with the ids 2, 4, ..., 2002, listed without a
\* limit from id 1 on: the 1000 entries with the ids 2 to 2000
C33_Witness ==
    /\ listed.called
    /\ ~listed.result_limit.some
    /\ listed.starting_id = Some(1)
    /\ Len(db.transactions) = 1001
    /\ db.transactions[1001] = 2002
    /\ Len(listed.results) = 1000
    /\ listed.results[1] = 2
    /\ listed.results[1000] = 2000

\* ---------------------------------------------------------------------- C34
\* two names that differ at most in the case of their letters
SameButCase(a, b) ==
    /\ Len(a) = Len(b)
    /\ \A i \in 1..Len(a) :
          \/ a[i] = b[i]
          \/ {a[i], b[i]} \in {{"a", "A"}, {"b", "B"}, {"d", "D"}}

NamesOf(databases) == {databases[i].name : i \in 1..Len(databases)}

C34_Unique ==
    \A i, j \in 1..Len(admin.databases) :
        SameButCase(admin.databases[i].name, admin.databases[j].name)
        => i = j

\* a create_database call under a name that an existing database has but
\* for the case of its letters
C34_Created ==
    (admin' # admin
        /\ \E other \in NamesOf(admin.databases) :
              SameButCase(admin'.result.name, other))
    => /\ admin'.result.error = "DatabaseNameAlreadyTaken"
       /\ admin'.databases = admin.databases
       /\ admin'.by_name = admin.by_name

\* C34: no two databases have names that differ only in the case of their
\* letters: creating a database under such a name fails with
\* DatabaseNameAlreadyTaken and leaves the databases as they are.
C34_NamesUniqueIgnoringCase == []C34_Unique /\ [][C34_Created]_vars

\* "aB" exists and the creation of "Ab" was refused
C34_Witness ==
    /\ admin.result = [error |-> "DatabaseNameAlreadyTaken",
                       name |-> <<"A", "b">>]
    /\ <<"a", "B">> \in NamesOf(admin.databases)
    /\ <<"A", "b">> \notin NamesOf(admin.databases)

\* ---------------------------------------------------------------------- C35
\* the keys view v maps the document of id to in trees: none for no document
CurrentKeys(trees, v, id) ==
    LET doc == trees.documents[ViewCollection(v)][id]
    IN IF doc = NoDoc THEN {} ELSE Emit(v, doc.contents)

\* the entries of view v are the map of the documents of trees
EntriesAreMapOfDocuments(trees, v) ==
    \A k \in Keys :
        LET entry == trees.view_entries[v][k]
        IN /\ Sources(entry) = {id \in DocIds : k \in CurrentKeys(trees, v, id)}
           /\ Len(entry.mappings) = Cardinality(Sources(entry))
           /\ \A i \in 1..Len(entry.mappings) :
                 entry.mappings[i].value =
                     EmitValue(v, trees.documents[ViewCollection(v)][
                                      entry.mappings[i].source].contents)
           /\ entry.reduced_value = SumValues(entry.mappings)

C35_Updated ==
    \A v \in Views :
        JobMap(v)
        => /\ db'.invalidated[v] = {}
           /\ db'.documents = db.documents
           /\ \A id \in db.invalidated[v] :
                 /\ db'.document_map[v][id] = CurrentKeys(db, v, id)
                 /\ \A k \in Keys :
                       id \in Sources(db'.view_entries[v][k])
                       <=> k \in CurrentKeys(db, v, id)
           /\ EntriesAreMapOfDocuments(db', v)

\* C35: a run of Update-if-needed, which in the model has no mapping error
\* and no write beside it, processes every id of the view's invalidated
\* tree: a document that exists is mapped with its current contents, a
\* deleted one loses its stale mappings, every such id leaves invalidated,
\* and the entries are then the map of the current documents.
C35_UpdateProcessesInvalidated == [][C35_Updated]_vars

\* an UpdateBefore query of the lazy view found document 1 deleted with its
\* mapping still in the entry of key 1 and document 2 not yet mapped; the
\* job took the one out and put the other in
C35_Witness ==
    /\ qry.view = "N"
    /\ qry.pc = "scanning"
    /\ qry.start.invalidated["N"] = {1, 2}
    /\ qry.start.documents["c1"][1] = NoDoc
    /\ qry.start.documents["c1"][2] # NoDoc
    /\ Sources(qry.start.view_entries["N"][1]) = {1}
    /\ Sources(db.view_entries["N"][1]) = {2}
    /\ db.invalidated["N"] = {}
    /\ db.documents = qry.start.documents

\* ---------------------------------------------------------------------- C36
\* the entries and the document-map of view v have the document of id as
\* the committed trees have it
Reflected(v, id) ==
    /\ db.document_map[v][id] = CurrentKeys(db, v, id)
    /\ \A k \in Keys :
          id \in Sources(db.view_entries[v][k]) <=> k \in CurrentKeys(db, v, id)

\* C36: no invalidation is lost to a running Update-if-needed job: whenever
\* a document's id is not in a view's invalidated tree, the view's entries
\* reflect the document's committed contents, also for a document that a
\* transaction changed between the job's scan and its end.
C36_NoInvalidationLost ==
    \A v \in Views, id \in DocIds :
        id \in db.invalidated[v] \/ Reflected(v, id)

\* the job of the lazy view has mapped document 1 and has not ended; a
\* transaction that committed meanwhile gave the document other contents,
\* and its id is in the invalidated tree again
C36_Witness ==
    /\ job["N"].state = "mapped"
    /\ db.documents["c1"][1].contents = "c"
    /\ Sources(db.view_entries["N"][1]) = {1}
    /\ db.view_entries["N"][3] = NoEntry
    /\ db.invalidated["N"] = {1}


\* ---------------------------------------------------------------------- C37
\* the views whose invalidated tree the committing transaction writes to
InvalidatedViews ==
    {v \in Views :
        /\ InvalidateView(v)
        /\ \E i \in 1..Len(tx.changed_documents) :
              tx.changed_documents[i].collection = ViewCollection(v)}

\* C37: when a transaction commits, the task dispatcher has been told of
\* every view the transaction invalidated (it holds a job for the view);
\* every other step of a transaction (begin, an operation, an abort, a
\* retried attempt) leaves the dispatcher, the relay and the subscribers'
\* queues as they were.
C37_NotifiedAfterCommit ==
    [][/\ Commit => \A v \in InvalidatedViews : Active(job'[v])
       /\ (tx' # tx /\ ~Commit) =>
              (job' = job /\ relay' = relay /\ clients' = clients)]_vars


\* ---------------------------------------------------------------------- C38
\* the trees of one view
TreesOfView(trees, v) ==
    <<trees.view_entries[v], trees.document_map[v], trees.omitted[v],
      trees.invalidated[v], trees.version[v]>>

\* what an open with integrity checks does to the view v
C38_Checked(v, version) ==
    IF db.version[v] # Some(version)
    THEN /\ \A k \in Keys : db'.view_entries[v][k] = NoEntry
         /\ \A id \in DocIds : db'.document_map[v][id] = {}
         /\ db'.omitted[v] = {}
         /\ \A id \in DocIds :
               db.documents[ViewCollection(v)][id] # NoDoc
                   => id \in db'.invalidated[v]
         /\ db'.version[v] = Some(version)
    ELSE TreesOfView(db', v) = TreesOfView(db, v)

EmitsKey(op, k) ==
    /\ op.command \in {"Insert", "Update"}
    /\ Unique("U") /\ op.collection = ViewCollection("U")
    /\ k \in Emit("U", op.contents)

\* the operation deletes document id or updates it away from key k
FreesKey(op, id, k) ==
    /\ op.collection = ViewCollection("U")
    /\ op.header.id = id
    /\ \/ op.command = "Delete"
       \/ op.command = "Update" /\ k \notin Emit("U", op.contents)

\* the documents that hold key k of the unique view in the committed trees
HoldersOf(k) == Sources(db.view_entries["U"][k])

\* the transaction in progress has freed key k: one of its operations took
\* the key from its committed holder, and none of them emits it
FreedInTransaction(k) ==
    /\ HoldersOf(k) # {}
    /\ \A id \in HoldersOf(k) :
          \E i \in 1..Len(tx.operations) : FreesKey(tx.operations[i], id, k)
    /\ \A i \in 1..Len(tx.operations) : ~EmitsKey(tx.operations[i], k)

\* key k has its committed holder, which the transaction has not touched
HeldUntouched(k) ==
    /\ HoldersOf(k) # {}
    /\ \A i \in 1..Len(tx.operations) :
          tx.operations[i].command = "Insert"
              \/ tx.operations[i].header.id \notin HoldersOf(k)

\* the keys no committed document holds and no operation so far emits
FreeKey(k) ==
    /\ HoldersOf(k) = {}
    /\ \A i \in 1..Len(tx.operations) : ~EmitsKey(tx.operations[i], k)

C39_InsertAfterFreeing(op) ==
    (/\ \E k \in Keys : EmitsKey(op, k) /\ FreedInTransaction(k)
     /\ \A k \in Keys :
           EmitsKey(op, k) => FreedInTransaction(k) \/ FreeKey(k))
        => /\ tx'.pc = "running"
           /\ tx'.operations = Append(tx.operations, op)
           /\ \A k \in Keys :
                 EmitsKey(op, k) =>
                     Sources(tx'.trees.view_entries["U"][k])
                         = {idgen[op.collection]}

C39_InsertBeforeFreeing(op) ==
    (\E k \in Keys : EmitsKey(op, k) /\ HeldUntouched(k))
        => /\ tx' = IdleTx
           /\ db' = db
           /\ returned'.status = "err"
           /\ returned'.error.kind = "UniqueKeyViolation"

\* C39: unique-key checks follow the operation order inside a transaction:
\* an insert of a document emitting key K succeeds, and the transaction can
\* commit, when an earlier operation of the same transaction deleted the
\* committed holder of K or updated it away from K; the same insert aborts
\* the transaction with UniqueKeyViolation when the holder has not been
\* touched yet, whatever would follow.
C39_ChecksFollowOrder ==
    [][\A op \in {InsertOp(c, contents, e) :
                    c \in Collections, contents \in Contents,
                    e \in EncryptionKeys} :
          Execute(op) =>
              C39_InsertAfterFreeing(op) /\ C39_InsertBeforeFreeing(op)]_vars

\* a committed transaction deleted document 1, the holder of key 1, and
\* then inserted document 2, which holds key 1 now
C39_Witness ==
    /\ returned.status = "ok"
    /\ Len(returned.results) = 2
    /\ returned.results[1] = DocumentDeleted("c1", 1)
    /\ returned.results[2].kind = "DocumentUpdated"
    /\ returned.results[2].id = 2
    /\ db.documents["c1"][1] = NoDoc
    /\ Sources(db.view_entries["U"][1]) = {2}


\* ---------------------------------------------------------------------- C40
\* the subscriber is subscribed to the user topic of its database: the relay
\* has it under the topic that a publish through the database uses
SubscribedTo(r, id, topic) ==
    <<DatabaseTopic(clients.database_name[id], topic), id>> \in r.topics

C40_Subscribe ==
    \A id \in SubscriberIds, topic \in UserTopics :
        SubscribeTo(id, topic) =>
            /\ SubscribedTo(relay', id, topic)
            /\ relay'.topics \ relay.topics
                  \subseteq {<<DatabaseTopic(clients.database_name[id], topic),
                               id>>}

C40_Unsubscribe ==
    \A id \in SubscriberIds, topic \in UserTopics :
        UnsubscribeFrom(id, topic) =>
            /\ ~SubscribedTo(relay', id, topic)
            /\ relay'.topics =
                  relay.topics
                      \ {<<DatabaseTopic(clients.database_name[id], topic), id>>}
            /\ relay'.queues = relay.queues

C40_Publish ==
    \A database \in DatabaseNames, topic \in UserTopics :
        Publish(database, topic) =>
            \A id \in SubscriberIds :
                IF clients.database_name[id] = database
                       /\ SubscribedTo(relay, id, topic)
                THEN Len(relay'.queues[id]) = Len(relay.queues[id]) + 1
                ELSE relay'.queues[id] = relay.queues[id]

\* what unsubscribe_from(topic) of subscriber id makes of the relay, and what
\* a publish to the topic through the subscriber's database makes of that
C40_Unsubscribed ==
    \A id \in relay.subscribers, topic \in UserTopics :
        LET database_name == clients.database_name[id]
            unsubscribed ==
                UnsubscribeFromRaw(relay, id,
                                   FormattedTopic(database_name, topic))
            published ==
                PublishRaw(unsubscribed, DatabaseTopic(database_name, topic),
                           NextPayload)
        IN /\ ~SubscribedTo(unsubscribed, id, topic)
           /\ published.queues[id] = relay.queues[id]

\* C40: unsubscribe_from(t) of a hosted subscriber removes exactly the
\* subscription that subscribe_to(t) added: both act on the topic that
\* publish(t) of the subscriber's database uses, so a publish to t reaches
\* the subscriber exactly while it is subscribed, and not after
\* subscribe_to(t) followed by unsubscribe_from(t).
C40_UnsubscribeUndoesSubscribe ==
    /\ []C40_Unsubscribed
    /\ [][C40_Subscribe /\ C40_Unsubscribe /\ C40_Publish]_vars

\* two subscribers of one database got the first message of a topic;
\* subscriber 1 then unsubscribed, and the second publish to the topic
\* reached subscriber 2 only
C40_Witness ==
    /\ clients.published = 2
    /\ clients.database_name[1] # NoName
    /\ clients.database_name[1] = clients.database_name[2]
    /\ \E t \in UserTopics :
          LET topic == DatabaseTopic(clients.database_name[1], t)
          IN /\ clients.received[1] \o relay.queues[1]
                    = <<Message(topic, 1)>>
             /\ ~SubscribedTo(relay, 1, t)
             /\ clients.received[2] \o relay.queues[2]
                    = <<Message(topic, 1), Message(topic, 2)>>

====
